---------------------------- MODULE Spec2Model ----------------------------
(***************************************************************************)
(* Model of the payments service: webhook deduplication, the subscription  *)
(* manager, the Stripe / IAP / Wise adapters, the entitlement service, the *)
(* ledger, the dunning job and the reconciliation job.                     *)
(*                                                                         *)
(* The Firestore collections are the state.  Every handler is written as   *)
(* an operator from a database value (a record of the collections) to the  *)
(* database value it leaves behind, so that a handler that calls other     *)
(* handlers is the composition of their operators.  Time is counted in     *)
(* units, UnitsPerDay of them to a day.                                    *)
(***************************************************************************)
EXTENDS Integers, Sequences, FiniteSets, TLC

VARIABLES
    now,        \* the clock (new Date()), in time units
    subs,       \* collection 'subscriptions': id -> document
    ent,        \* collection 'entitlements': uid -> document
    ledger,     \* collection 'ledger': the entries in the order added
    webhooks,   \* collection 'webhooks': the dedup documents
    payouts,    \* collection 'payouts': id -> document
    reqs,       \* webhook requests in flight (concurrent deliveries)
    lastSweep   \* the scheduler of the dunning job: the day of its last run

vars == <<now, subs, ent, ledger, webhooks, payouts, reqs, lastSweep>>

---------------------------------------------------------------------------
(* Bounds of the model *)

UnitsPerDay == 2
MaxDay == 9
MaxLedger == 3
MaxWebhooks == 2
MaxReq == 2
MaxMore == 1
MaxMoreWebhooks == 2

(* Amounts the payloads carry, in cents: invoice.amount_paid of a Stripe   *)
(* invoice and the amount of a payout request.                             *)
STRIPE_AMOUNT == 1000
PAYOUT_AMOUNT == 500

(* Program constants: GRACE_DAYS, the 30 days of calculatePeriodEnd and    *)
(* the 9.99 of every IAP charge, in cents.                                 *)

GRACE_DAYS == 7
PERIOD_DAYS == 30
IAP_AMOUNT == 999

NoDate == 0 - 1
NoAttempt == 0 - 1

DayUnits(d) == d * UnitsPerDay
MaxNow == DayUnits(MaxDay)

---------------------------------------------------------------------------
(* Identities *)

Uids == {"u1"}
StripeSubIds == {"sub_s"}
IapSubIds == {"sub_i"}
SubIds == StripeSubIds \cup IapSubIds
PayoutIds == {"po_1"}
TransferIds == {"tr_1"}

Providers == {"stripe", "iap", "wise"}
Platforms == {"ios", "android"}
Features == {"groupReplay", "oneToOne", "androidNoReplay"}

(* SubscriptionStatus *)
Statuses == {"active", "past_due", "canceled", "incomplete", "trialing", "paused", "ended"}
EntitledStatuses == {"active", "trialing", "past_due"}
TerminalStatuses == {"canceled", "ended"}

(* A document that does not exist, and the fields a subscription document has. *)
NoSub ==
    [exists |-> FALSE, uid |-> "", provider |-> "", platform |-> "", status |-> "",
     currentPeriodStart |-> NoDate, currentPeriodEnd |-> NoDate, graceUntil |-> NoDate,
     cancelAtPeriodEnd |-> FALSE, updatedAt |-> NoDate]

NoEnt == [exists |-> FALSE, groupReplay |-> FALSE, oneToOne |-> FALSE, androidNoReplay |-> "undef"]

NoPayout == [exists |-> FALSE, status |-> "", wiseTransferId |-> "", tutorId |-> ""]

(* The database: the collections the handlers read and write. *)
DB == [subs |-> subs, ent |-> ent, ledger |-> ledger, webhooks |-> webhooks, payouts |-> payouts]

EmptyDB ==
    [subs |-> [s \in SubIds |-> NoSub],
     ent |-> [u \in Uids |-> NoEnt],
     ledger |-> <<>>,
     webhooks |-> {},
     payouts |-> [p \in PayoutIds |-> NoPayout]]

---------------------------------------------------------------------------
(* Ledger: collections.ledger().add(entry).  Firestore gives the new       *)
(* document an id of its own; the entries are never written again.         *)

Entry(ts, type, refId, provider, amount, uid, tag, attempt) ==
    [id |-> 0, ts |-> ts, type |-> type, refId |-> refId, provider |-> provider,
     amount |-> amount, uid |-> uid, tag |-> tag, attempt |-> attempt]

(* collections.ledger().doc(id).set(entry) on the latest document: what     *)
(* add() is not.                                                           *)
LedgerSet(d, e) ==
    [d EXCEPT !.ledger = IF @ = <<>> THEN <<[e EXCEPT !.id = 1]>>
                         ELSE [@ EXCEPT ![Len(@)] = [e EXCEPT !.id = Len(d.ledger)]]]

LedgerAdd(d, e) ==
    [d EXCEPT !.ledger = Append(@, [e EXCEPT !.id = Len(d.ledger) + 1])]

(* A handler's outcome: the database it leaves and whether it threw. *)
Ok(d) == [db |-> d, err |-> FALSE]
Throw(d) == [db |-> d, err |-> TRUE]

---------------------------------------------------------------------------
(* EntitlementService *)

(* a ?? b ?? false over the three-valued partial fields *)
Coalesce(f, existing) == IF f # "undef" THEN f = "true" ELSE existing

NoFeatures == [groupReplay |-> "undef", oneToOne |-> "undef", androidNoReplay |-> "undef"]

updateEntitlements(d, uid, f) ==
    LET existing == d.ent[uid]
        doc == [exists |-> TRUE,
                groupReplay |-> Coalesce(f.groupReplay, existing.exists /\ existing.groupReplay),
                oneToOne |-> Coalesce(f.oneToOne, existing.exists /\ existing.oneToOne),
                androidNoReplay |-> IF f.androidNoReplay # "undef" THEN f.androidNoReplay
                                    ELSE IF existing.exists THEN existing.androidNoReplay
                                    ELSE "undef"]
    IN  [d EXCEPT !.ent[uid] = doc]

revokeAllEntitlements(d, uid) ==
    [d EXCEPT !.ent[uid] =
        [exists |-> TRUE, groupReplay |-> FALSE, oneToOne |-> FALSE, androidNoReplay |-> "undef"]]

---------------------------------------------------------------------------
(* SubscriptionManager *)

calculatePeriodEnd(start) == start + DayUnits(PERIOD_DAYS)

(* grantEntitlements reading the platform from a field the document does   *)
(* not have: the Android flag is never set.                                *)
grantEntitlementsWithoutPlatform(d, sub) ==
    LET f == IF sub.provider = "stripe"
               THEN [NoFeatures EXCEPT !.oneToOne = "true", !.groupReplay = "false"]
             ELSE IF sub.provider = "iap"
               THEN [NoFeatures EXCEPT !.groupReplay = "true", !.oneToOne = "false"]
             ELSE NoFeatures
    IN  updateEntitlements(d, sub.uid, f)

grantEntitlements(d, sub) ==
    LET f == IF sub.provider = "stripe"
               THEN [NoFeatures EXCEPT !.oneToOne = "true", !.groupReplay = "false"]
             ELSE IF sub.provider = "iap"
               THEN [NoFeatures EXCEPT !.groupReplay = "true", !.oneToOne = "false",
                                       !.androidNoReplay =
                                           IF sub.platform = "android" THEN "true" ELSE "undef"]
             ELSE NoFeatures
    IN  updateEntitlements(d, sub.uid, f)

revokeEntitlements(d, uid) == revokeAllEntitlements(d, uid)

hasOtherActiveSubscriptions(d, uid, excludeSubscriptionId) ==
    \E s \in SubIds :
        /\ d.subs[s].exists
        /\ d.subs[s].uid = uid
        /\ d.subs[s].status \in {"active", "trialing", "past_due"}
        /\ s # excludeSubscriptionId

createSubscription(d, id, uid, provider, platform, status, t) ==
    LET sub == [exists |-> TRUE, uid |-> uid, provider |-> provider, platform |-> platform,
                status |-> status, currentPeriodStart |-> t,
                currentPeriodEnd |-> calculatePeriodEnd(t), graceUntil |-> NoDate,
                cancelAtPeriodEnd |-> FALSE, updatedAt |-> t]
        d1 == [d EXCEPT !.subs[id] = sub]
    IN  IF status = "active" THEN grantEntitlements(d1, sub) ELSE d1

updateSubscriptionStatus(d, subscriptionId, status, t) ==
    IF ~d.subs[subscriptionId].exists
      THEN Throw(d)      \* update() of a missing document rejects
      ELSE
        LET d1 == [d EXCEPT !.subs[subscriptionId].status = status,
                            !.subs[subscriptionId].updatedAt = t,
                            !.subs[subscriptionId].graceUntil =
                                IF status = "past_due" THEN t + DayUnits(GRACE_DAYS) ELSE @]
            subscription == d1.subs[subscriptionId]
        IN  IF status \in {"active", "trialing"}
              THEN Ok(grantEntitlements(d1, subscription))
            ELSE IF status \in {"canceled", "ended", "incomplete"}
              THEN IF ~hasOtherActiveSubscriptions(d1, subscription.uid, subscriptionId)
                     THEN Ok(revokeEntitlements(d1, subscription.uid))
                     ELSE Ok(d1)
            ELSE Ok(d1)

renewSubscription(d, subscriptionId, t) ==
    IF ~d.subs[subscriptionId].exists
      THEN Throw(d)
      ELSE
        LET subscription == d.subs[subscriptionId]
            newPeriodStart == subscription.currentPeriodEnd
            newPeriodEnd == calculatePeriodEnd(newPeriodStart)
            d1 == [d EXCEPT !.subs[subscriptionId].status = "active",
                            !.subs[subscriptionId].currentPeriodStart = newPeriodStart,
                            !.subs[subscriptionId].currentPeriodEnd = newPeriodEnd,
                            !.subs[subscriptionId].graceUntil = NoDate,
                            !.subs[subscriptionId].updatedAt = t]
            d2 == grantEntitlements(d1, [subscription EXCEPT !.status = "active"])
        IN  Ok(LedgerAdd(d2, Entry(t, "subscription.renewed", subscriptionId,
                                   subscription.provider, 0, subscription.uid, "", NoAttempt)))

(* cancelSubscription without the hasOtherActiveSubscriptions check: every  *)
(* immediate cancel revokes.                                               *)
cancelSubscriptionRevokingAlways(d, subscriptionId, immediate, t) ==
    IF ~d.subs[subscriptionId].exists
      THEN Throw(d)
    ELSE IF ~immediate
      THEN Ok([d EXCEPT !.subs[subscriptionId].cancelAtPeriodEnd = TRUE,
                        !.subs[subscriptionId].updatedAt = t])
    ELSE
        LET d1 == [d EXCEPT !.subs[subscriptionId].status = "canceled",
                            !.subs[subscriptionId].currentPeriodEnd = t,
                            !.subs[subscriptionId].updatedAt = t]
            subscription == d1.subs[subscriptionId]
        IN  Ok(LedgerAdd(revokeEntitlements(d1, subscription.uid),
                         Entry(t, "subscription.canceled", subscriptionId,
                               subscription.provider, 0, subscription.uid,
                               "immediate", NoAttempt)))

cancelSubscription(d, subscriptionId, immediate, t) ==
    IF ~d.subs[subscriptionId].exists
      THEN Throw(d)
    ELSE IF ~immediate
      THEN Ok([d EXCEPT !.subs[subscriptionId].cancelAtPeriodEnd = TRUE,
                        !.subs[subscriptionId].updatedAt = t])
    ELSE
        LET d1 == [d EXCEPT !.subs[subscriptionId].status = "canceled",
                            !.subs[subscriptionId].currentPeriodEnd = t,
                            !.subs[subscriptionId].updatedAt = t]
            subscription == d1.subs[subscriptionId]
            d2 == IF ~hasOtherActiveSubscriptions(d1, subscription.uid, subscriptionId)
                    THEN revokeEntitlements(d1, subscription.uid)
                    ELSE d1
        IN  Ok(LedgerAdd(d2, Entry(t, "subscription.canceled", subscriptionId,
                                   subscription.provider, 0, subscription.uid,
                                   "immediate", NoAttempt)))

handleFailedRenewal(d, subscriptionId, attempt, t) ==
    IF ~d.subs[subscriptionId].exists
      THEN Ok(d)
      ELSE
        LET subscription == d.subs[subscriptionId]
        IN  IF attempt = 0
              THEN updateSubscriptionStatus(d, subscriptionId, "past_due", t)
            ELSE IF subscription.graceUntil # NoDate /\ t > subscription.graceUntil
              THEN LET r == updateSubscriptionStatus(d, subscriptionId, "canceled", t)
                   IN  IF r.err THEN r ELSE Ok(revokeEntitlements(r.db, subscription.uid))
            ELSE Ok(d)

(* The subscriptions the expiry query returns: status == past_due and       *)
(* graceUntil <= now (a document without a date in graceUntil matches no    *)
(* range filter).                                                           *)
ExpiredGrace(d, t) ==
    {s \in SubIds : /\ d.subs[s].exists
                    /\ d.subs[s].status = "past_due"
                    /\ d.subs[s].graceUntil # NoDate
                    /\ d.subs[s].graceUntil <= t}

RECURSIVE CancelAll(_, _, _)
CancelAll(d, S, t) ==
    IF S = {} THEN d
    ELSE LET s == CHOOSE x \in S : TRUE
         IN  CancelAll(updateSubscriptionStatus(d, s, "canceled", t).db, S \ {s}, t)

checkGracePeriodExpiry(d, t) == CancelAll(d, ExpiredGrace(d, t), t)

---------------------------------------------------------------------------
(* Notifications the providers send.  A notification is a fixed payload; a  *)
(* retry delivers the same payload again.                                   *)
(*   endpoint  the webhook route it is posted to                           *)
(*   type      event.type / notification_type / notificationType / state   *)
(*   ref       the subscription (or transfer) the payload names            *)
(*   status    subscription.status of a customer.subscription.* payload    *)

StripeTypes == {"invoice.payment_succeeded", "invoice.payment_failed",
                "customer.subscription.created", "customer.subscription.updated",
                "customer.subscription.deleted", "charge.refunded", "customer.created"}
StripeCreatedStatuses == {"incomplete"}
StripeUpdatedStatuses == {"active", "past_due", "canceled"}

AppleTypes == {"DID_RENEW", "DID_FAIL_TO_RENEW", "REFUND", "CANCEL"}
GoogleTypes == {"2", "3", "12", "10"}
WiseTypes == {"outgoing_payment_sent", "funds_refunded", "cancelled"}

Notif(endpoint, type, ref, status) ==
    [endpoint |-> endpoint, type |-> type, ref |-> ref, status |-> status]

StripeNotifs ==
    {Notif("stripe", ty, s, st) :
        ty \in StripeTypes, s \in StripeSubIds,
        st \in StripeCreatedStatuses \cup StripeUpdatedStatuses \cup {""}}
AppleNotifs == {Notif("appstore", ty, s, "") : ty \in AppleTypes, s \in IapSubIds}
GoogleNotifs == {Notif("play", ty, s, "") : ty \in GoogleTypes, s \in IapSubIds}
WiseNotifs == {Notif("wise", ty, tr, "") : ty \in WiseTypes, tr \in TransferIds}

WellFormed(n) ==
    IF n.endpoint = "stripe"
      THEN CASE n.type = "customer.subscription.created" -> n.status \in StripeCreatedStatuses
             [] n.type = "customer.subscription.updated" -> n.status \in StripeUpdatedStatuses
             [] OTHER -> n.status = ""
      ELSE TRUE

SubscriptionNotifications ==
    {n \in StripeNotifs \cup AppleNotifs \cup GoogleNotifs : WellFormed(n)}
Notifications == SubscriptionNotifications \cup WiseNotifs

(* The uid a Stripe payload carries in its metadata. *)
StripeUid(n) == "u1"

(* WebhookResult *)
Result(eventId, processed) == [eventId |-> eventId, processed |-> processed]

---------------------------------------------------------------------------
(* StripeAdapter *)

(* collections.entitlements().doc(uid).set({features: {oneToOne, groupReplay: false}}, {merge: true}) *)
stripeUpdateEntitlements(d, uid, active) ==
    [d EXCEPT !.ent[uid] = [exists |-> TRUE, groupReplay |-> FALSE, oneToOne |-> active,
                            androidNoReplay |-> IF @.exists THEN @.androidNoReplay ELSE "undef"]]

handleInvoicePaymentSucceeded(d, n, t) ==
    Ok(LedgerAdd(d, Entry(t, "payment.succeeded", "invoice", "stripe", STRIPE_AMOUNT,
                          StripeUid(n), "", NoAttempt)))

handleInvoicePaymentFailed(d, n, t) ==
    IF ~d.subs[n.ref].exists
      THEN Throw(d)
      ELSE LET d1 == [d EXCEPT !.subs[n.ref].status = "past_due",
                               !.subs[n.ref].updatedAt = t]
           IN  Ok(LedgerAdd(d1, Entry(t, "payment.failed", "invoice", "stripe", STRIPE_AMOUNT,
                                      StripeUid(n), "", NoAttempt)))

handleSubscriptionCreated(d, n, t) ==
    LET sub == [exists |-> TRUE, uid |-> StripeUid(n), provider |-> "stripe", platform |-> "",
                status |-> n.status, currentPeriodStart |-> 0,
                currentPeriodEnd |-> calculatePeriodEnd(0), graceUntil |-> NoDate,
                cancelAtPeriodEnd |-> FALSE, updatedAt |-> t]
        d1 == [d EXCEPT !.subs[n.ref] = sub]
    IN  Ok(LedgerAdd(d1, Entry(t, "subscription.created", n.ref, "stripe", 0,
                               StripeUid(n), "", NoAttempt)))

handleSubscriptionUpdated(d, n, t) ==
    IF ~d.subs[n.ref].exists
      THEN Throw(d)
      ELSE LET d1 == [d EXCEPT !.subs[n.ref].status = n.status,
                               !.subs[n.ref].currentPeriodStart = 0,
                               !.subs[n.ref].currentPeriodEnd = calculatePeriodEnd(0),
                               !.subs[n.ref].cancelAtPeriodEnd = FALSE,
                               !.subs[n.ref].updatedAt = t]
           IN  IF n.status = "active"
                 THEN Ok(LedgerAdd(stripeUpdateEntitlements(d1, StripeUid(n), TRUE),
                                   Entry(t, "subscription.renewed", n.ref, "stripe", 0,
                                         StripeUid(n), "", NoAttempt)))
                 ELSE Ok(d1)

handleSubscriptionDeleted(d, n, t) ==
    IF ~d.subs[n.ref].exists
      THEN Throw(d)
      ELSE LET d1 == [d EXCEPT !.subs[n.ref].status = "canceled",
                               !.subs[n.ref].updatedAt = t]
           IN  Ok(LedgerAdd(stripeUpdateEntitlements(d1, StripeUid(n), FALSE),
                            Entry(t, "subscription.canceled", n.ref, "stripe", 0,
                                  StripeUid(n), "", NoAttempt)))

handleChargeRefunded(d, n, t) ==
    Ok(LedgerAdd(d, Entry(t, "refund.succeeded", "charge", "stripe", STRIPE_AMOUNT,
                          StripeUid(n), "", NoAttempt)))

(* StripeAdapter.handleWebhook: the database left, whether it threw, and the *)
(* WebhookResult: event.id is the notification's own id.                    *)
stripeHandleWebhook(d, n, t) ==
    LET r == CASE n.type = "invoice.payment_succeeded" -> handleInvoicePaymentSucceeded(d, n, t)
               [] n.type = "invoice.payment_failed" -> handleInvoicePaymentFailed(d, n, t)
               [] n.type = "customer.subscription.created" -> handleSubscriptionCreated(d, n, t)
               [] n.type = "customer.subscription.updated" -> handleSubscriptionUpdated(d, n, t)
               [] n.type = "customer.subscription.deleted" -> handleSubscriptionDeleted(d, n, t)
               [] n.type = "charge.refunded" -> handleChargeRefunded(d, n, t)
               [] OTHER -> Ok(d)
        processed == n.type \in {"invoice.payment_succeeded", "invoice.payment_failed",
                                 "customer.subscription.created", "customer.subscription.updated",
                                 "customer.subscription.deleted", "charge.refunded"}
    IN  [db |-> r.db, err |-> r.err, result |-> Result(n, processed)]

---------------------------------------------------------------------------
(* IAPAdapter *)

(* The id the IAP and Wise adapters report: a plain string of the payload. *)
PlainId(x) == Notif("", "", x, "")

IapPlatform(n) == IF n.endpoint = "appstore" THEN "ios" ELSE "android"

(* payload.transaction_id: Apple gives each notification a transaction of  *)
(* its own; a retry of the notification carries the same one.              *)
TransactionId(n) == n

(* features: {groupReplay: false, oneToOne: false, androidNoReplay: false}, {merge: true} *)
iapClearEntitlements(d, uid) ==
    [d EXCEPT !.ent[uid] = [exists |-> TRUE, groupReplay |-> FALSE, oneToOne |-> FALSE,
                            androidNoReplay |-> "false"]]

(* validateReceipt -> saveIAPSubscription: subscription, invoice, payment, ledger *)
saveIAPSubscription(d, subscriptionId, uid, platform, t) ==
    LET d1 == createSubscription(d, subscriptionId, uid, "iap", platform, "active", t)
        d2 == LedgerAdd(d1, Entry(t, "invoice.created", "invoice", "iap", IAP_AMOUNT, uid,
                                  "", NoAttempt))
    IN  LedgerAdd(d2, Entry(t, "payment.succeeded", "invoice", "iap", IAP_AMOUNT, uid,
                            platform, NoAttempt))

(* handleIAPRenewal, after the subscription was read: the update() of the  *)
(* document, computed from the copy that was read, and the ledger entry.   *)
iapRenewalUpdate(d, n, subscription, t) ==
    LET newPeriodStart == IF subscription.currentPeriodEnd # NoDate
                            THEN subscription.currentPeriodEnd ELSE t
    IN  [d EXCEPT !.subs[n.ref].status = "active",
                  !.subs[n.ref].currentPeriodStart = newPeriodStart,
                  !.subs[n.ref].currentPeriodEnd = calculatePeriodEnd(newPeriodStart),
                  !.subs[n.ref].graceUntil = NoDate,
                  !.subs[n.ref].updatedAt = t]

iapRenewalLedger(d, n, subscription, t) ==
    LedgerAdd(d, Entry(t, "subscription.renewed", n.ref, "iap", IAP_AMOUNT,
                       subscription.uid, IapPlatform(n), NoAttempt))

handleIAPRenewal(d, n, t) ==
    IF ~d.subs[n.ref].exists
      THEN Ok(d)
      ELSE LET subscription == d.subs[n.ref]
           IN  Ok(iapRenewalLedger(iapRenewalUpdate(d, n, subscription, t), n, subscription, t))

(* handleIAPRenewalFailure, after the subscription was read *)
iapFailureUpdate(d, n, subscription, t) ==
    LET graceUntil == t + DayUnits(GRACE_DAYS)
    IN  [d EXCEPT !.subs[n.ref].status = "past_due",
                  !.subs[n.ref].graceUntil = graceUntil,
                  !.subs[n.ref].updatedAt = t]

iapFailureLedger(d, n, subscription, t) ==
    LedgerAdd(d, Entry(t, "payment.failed", n.ref, "iap", 0,
                       subscription.uid, IapPlatform(n), NoAttempt))

handleIAPRenewalFailure(d, n, t) ==
    IF ~d.subs[n.ref].exists
      THEN Ok(d)
      ELSE LET subscription == d.subs[n.ref]
           IN  Ok(iapFailureLedger(iapFailureUpdate(d, n, subscription, t), n, subscription, t))

handleIAPRefund(d, n, t) ==
    IF ~d.subs[n.ref].exists
      THEN Ok(d)
      ELSE LET subscription == d.subs[n.ref]
               d1 == [d EXCEPT !.subs[n.ref].status = "canceled",
                               !.subs[n.ref].currentPeriodEnd = t,
                               !.subs[n.ref].updatedAt = t]
               d2 == iapClearEntitlements(d1, subscription.uid)
           IN  Ok(LedgerAdd(d2, Entry(t, "refund.succeeded", n.ref, "iap", IAP_AMOUNT,
                                      subscription.uid, "refund", NoAttempt)))

handleIAPCancellation(d, n, t) ==
    IF ~d.subs[n.ref].exists
      THEN Ok(d)
      ELSE LET subscription == d.subs[n.ref]
               d1 == [d EXCEPT !.subs[n.ref].cancelAtPeriodEnd = TRUE,
                               !.subs[n.ref].updatedAt = t]
           IN  Ok(LedgerAdd(d1, Entry(t, "subscription.canceled", n.ref, "iap", 0,
                                      subscription.uid, "cancelAtPeriodEnd", NoAttempt)))

handleIAPPause(d, n, t) ==
    IF ~d.subs[n.ref].exists
      THEN Ok(d)
      ELSE LET subscription == d.subs[n.ref]
               d1 == [d EXCEPT !.subs[n.ref].status = "paused",
                               !.subs[n.ref].updatedAt = t]
           IN  Ok(iapClearEntitlements(d1, subscription.uid))

handleAppleWebhook(d, n, t) ==
    LET r == CASE n.type \in {"INITIAL_BUY", "DID_RENEW"} -> handleIAPRenewal(d, n, t)
               [] n.type = "DID_FAIL_TO_RENEW" -> handleIAPRenewalFailure(d, n, t)
               [] n.type = "REFUND" -> handleIAPRefund(d, n, t)
               [] n.type = "CANCEL" -> handleIAPCancellation(d, n, t)
               [] OTHER -> Ok(d)
        processed == n.type \in {"INITIAL_BUY", "DID_RENEW", "DID_FAIL_TO_RENEW", "REFUND",
                                 "CANCEL"}
    IN  [db |-> r.db, err |-> r.err, result |-> Result(TransactionId(n), processed)]

handleGoogleWebhook(d, n, t) ==
    LET r == CASE n.type \in {"1", "2", "7"} -> handleIAPRenewal(d, n, t)
               [] n.type = "3" -> handleIAPCancellation(d, n, t)
               [] n.type = "12" -> handleIAPRefund(d, n, t)
               [] n.type \in {"10", "11"} -> handleIAPPause(d, n, t)
               [] OTHER -> Ok(d)
        processed == n.type \in {"1", "2", "7", "3", "12", "10", "11"}
    IN  [db |-> r.db, err |-> r.err, result |-> Result(PlainId(n.ref), processed)]

iapHandleWebhook(d, n, t) ==
    IF IapPlatform(n) = "ios" THEN handleAppleWebhook(d, n, t) ELSE handleGoogleWebhook(d, n, t)

---------------------------------------------------------------------------
(* WiseAdapter *)

PayoutOf(d, transferId) ==
    {p \in PayoutIds : d.payouts[p].exists /\ d.payouts[p].wiseTransferId = transferId}

preparePayout(d, p, tutorId) ==
    [d EXCEPT !.payouts[p] = [exists |-> TRUE, status |-> "queued", wiseTransferId |-> "",
                              tutorId |-> tutorId]]

approvePayout(d, p, transferId) ==
    IF ~d.payouts[p].exists \/ d.payouts[p].status # "queued"
      THEN Throw(d)
      ELSE Ok([d EXCEPT !.payouts[p].status = "processing",
                        !.payouts[p].wiseTransferId = transferId])

handlePayoutCompleted(d, n, t) ==
    IF PayoutOf(d, n.ref) = {}
      THEN Ok(d)
      ELSE LET p == CHOOSE x \in PayoutOf(d, n.ref) : TRUE
               d1 == [d EXCEPT !.payouts[p].status = "paid"]
           IN  Ok(LedgerAdd(d1, Entry(t, "payout.paid", p, "wise", PAYOUT_AMOUNT,
                                      d.payouts[p].tutorId, "", NoAttempt)))

handlePayoutFailed(d, n, t) ==
    IF PayoutOf(d, n.ref) = {}
      THEN Ok(d)
      ELSE LET p == CHOOSE x \in PayoutOf(d, n.ref) : TRUE
           IN  Ok([d EXCEPT !.payouts[p].status = "failed"])

wiseHandleWebhook(d, n, t) ==
    LET r == CASE n.type = "outgoing_payment_sent" -> handlePayoutCompleted(d, n, t)
               [] n.type = "funds_converted" -> Ok(d)
               [] n.type \in {"bounced_back", "funds_refunded"} -> handlePayoutFailed(d, n, t)
               [] OTHER -> Ok(d)
        processed == n.type \in {"outgoing_payment_sent", "funds_converted", "bounced_back",
                                 "funds_refunded"}
    IN  [db |-> r.db, err |-> r.err, result |-> Result(PlainId(n.ref), processed)]

---------------------------------------------------------------------------
(* lib/idempotency and the webhook routes *)

generateWebhookDedupKey(provider, eventId) == <<provider, eventId>>

isWebhookProcessed(d, dedupKey) == \E w \in d.webhooks : w.dedupKey = dedupKey

(* collections.webhooks().doc(dedupKey).set(...): replaces the document *)
markWebhookProcessed(d, dedupKey, provider, status, t) ==
    [d EXCEPT !.webhooks = {w \in @ : w.dedupKey # dedupKey} \cup
        {[dedupKey |-> dedupKey, provider |-> provider, status |-> status, processedAt |-> t]}]

adapterHandleWebhook(d, n, t) ==
    CASE n.endpoint = "stripe" -> stripeHandleWebhook(d, n, t)
      [] n.endpoint \in {"appstore", "play"} -> iapHandleWebhook(d, n, t)
      [] OTHER -> wiseHandleWebhook(d, n, t)

RouteProvider(n) ==
    CASE n.endpoint = "stripe" -> "stripe"
      [] n.endpoint \in {"appstore", "play"} -> "iap"
      [] OTHER -> "wise"

Response(n, code, status) == [endpoint |-> n.endpoint, n |-> n, code |-> code, status |-> status]
NoResponse == Response(Notif("", "", "", ""), 0, "")

(* router.post('/stripe' | '/appstore' | '/play' | '/wise'): one whole delivery *)
webhookRoute(d, n, t) ==
    LET r == adapterHandleWebhook(d, n, t)
        dedupKey == generateWebhookDedupKey(n.endpoint, r.result.eventId)
    IN  IF r.err
          THEN [db |-> r.db, resp |-> Response(n, 400, "error")]
        ELSE IF isWebhookProcessed(r.db, dedupKey)
          THEN [db |-> r.db, resp |-> Response(n, 200, "already_processed")]
        ELSE [db |-> markWebhookProcessed(r.db, dedupKey, RouteProvider(n),
                                          IF r.result.processed THEN "processed" ELSE "ignored", t),
              resp |-> Response(n, 200, IF r.result.processed THEN "processed" ELSE "ignored")]

---------------------------------------------------------------------------
(* jobs/dunning *)

(* Documents come back from a query in the order of their ids. *)
SubOrder == <<"sub_i", "sub_s">>

(* Math.ceil(a / b) for a >= 0 *)
CeilDiv(a, b) == (a + b - 1) \div b

Abs(x) == IF x < 0 THEN 0 - x ELSE x

calculateDaysSinceFailure(subscription, t) ==
    CeilDiv(Abs(t - subscription.updatedAt), UnitsPerDay)

determineAttemptNumber(daysSinceFailure) ==
    IF daysSinceFailure = 0 \/ daysSinceFailure = 1 THEN 0
    ELSE IF daysSinceFailure = 3 THEN 1
    ELSE IF daysSinceFailure = 7 THEN 2
    ELSE NoAttempt

(* The attempts the job collects before it processes any of them. *)
DunningAttemptOf(d, s, t) ==
    IF d.subs[s].exists /\ d.subs[s].status = "past_due"
      THEN determineAttemptNumber(calculateDaysSinceFailure(d.subs[s], t))
      ELSE NoAttempt

processDunningAttempt(d, s, uid, attemptNumber, t) ==
    LET d1 == LedgerAdd(d, Entry(t, "payment.failed", s, "stripe", 0, uid, "dunning",
                                 attemptNumber))
    IN  handleFailedRenewal(d1, s, attemptNumber, t).db

RECURSIVE ProcessAttempts(_, _, _, _)
ProcessAttempts(d, d0, i, t) ==
    IF i > Len(SubOrder) THEN d
    ELSE LET s == SubOrder[i]
             a == DunningAttemptOf(d0, s, t)
         IN  ProcessAttempts(IF a # NoAttempt
                               THEN processDunningAttempt(d, s, d0.subs[s].uid, a, t)
                               ELSE d,
                             d0, i + 1, t)

runDunningJob(d, t) == checkGracePeriodExpiry(ProcessAttempts(d, d, 1, t), t)

---------------------------------------------------------------------------
(* jobs/reconcile *)

ProviderOrder == <<"stripe", "iap", "wise">>

(* getStartDate: the previous day, at midnight *)
getStartDate(t) == ((t \div UnitsPerDay) - 1) * UnitsPerDay

RECURSIVE SumEntries(_, _, _, _, _)
SumEntries(l, i, provider, startDate, endDate) ==
    IF i > Len(l) THEN 0
    ELSE LET e == l[i]
             counted == /\ e.provider = provider
                        /\ e.ts >= startDate /\ e.ts <= endDate
                        /\ e.type \in {"payment.succeeded", "refund.succeeded", "payout.paid"}
             v == IF ~counted THEN 0
                  ELSE IF e.type = "refund.succeeded" THEN 0 - e.amount ELSE e.amount
         IN  v + SumEntries(l, i + 1, provider, startDate, endDate)

(* The total when the window's last instant is left out. *)
getLedgerTotalBeforeEnd(d, provider, startDate, endDate) ==
    SumEntries(d.ledger, 1, provider, startDate, endDate - 1)

getLedgerTotal(d, provider, startDate, endDate) ==
    SumEntries(d.ledger, 1, provider, startDate, endDate)

(* the mock: the provider's total is read from the ledger again *)
getProviderTotal(d, provider, startDate, endDate) ==
    getLedgerTotal(d, provider, startDate, endDate)

(* failed: the queries of this provider threw, and the catch answered.     *)
(* Amounts are in cents: difference < 0.01 is difference < 1.              *)
reconcileProvider(d, provider, failed, startDate, endDate) ==
    IF failed
      THEN [provider |-> provider, ledgerTotal |-> 0, providerTotal |-> 0,
            difference |-> 0, matched |-> FALSE]
      ELSE LET ledgerTotal == getLedgerTotal(d, provider, startDate, endDate)
               providerTotal == getProviderTotal(d, provider, startDate, endDate)
               difference == Abs(ledgerTotal - providerTotal)
           IN  [provider |-> provider, ledgerTotal |-> ledgerTotal,
                providerTotal |-> providerTotal,
                difference |-> difference, matched |-> difference < 1]

RECURSIVE WriteMismatches(_, _, _, _, _)
WriteMismatches(d, d0, failing, i, t) ==
    IF i > Len(ProviderOrder) THEN d
    ELSE LET result == reconcileProvider(d0, ProviderOrder[i], ProviderOrder[i] \in failing,
                                         getStartDate(t), t)
         IN  WriteMismatches(
                 IF result.matched THEN d
                 ELSE LedgerAdd(d, Entry(t, "payment.failed", "reconcile", result.provider,
                                         result.difference, "", "reconciliation_mismatch",
                                         NoAttempt)),
                 d0, failing, i + 1, t)

(* The providers whose queries fail in one run of the job. *)
QueryFailures == {{}, {"stripe"}}

runReconcileJob(d, failing, t) == WriteMismatches(d, d, failing, 1, t)

---------------------------------------------------------------------------
(* The system, one whole operation per step *)

(* The most ledger entries and dedup documents a run started from database *)
(* d0 may reach.                                                           *)
Caps(d0, moreLedger, moreWebhooks) ==
    [ledger |-> Len(d0.ledger) + moreLedger,
     webhooks |-> Cardinality(d0.webhooks) + moreWebhooks]

FromEmpty == Caps(EmptyDB, MaxLedger, MaxWebhooks)

(* Install the database a handler leaves. *)
Install(d) ==
    /\ subs' = d.subs
    /\ ent' = d.ent
    /\ ledger' = d.ledger
    /\ webhooks' = d.webhooks
    /\ payouts' = d.payouts

Commit(d, cap) ==
    /\ Len(d.ledger) <= cap.ledger
    /\ Cardinality(d.webhooks) <= cap.webhooks
    /\ Install(d)

(* A request slot: where the request is in its route, the notification it  *)
(* carries, the subscription its handler read and the status it answered;  *)
(* and, as history, whether its handler wrote, whether its dedup record    *)
(* replaced one, and whether another request was in flight along with it.  *)
IdleReq ==
    [pc |-> "idle", n |-> Notif("", "", "", ""), subscription |-> NoSub, status |-> "",
     wrote |-> FALSE, overwrote |-> FALSE, overlapped |-> FALSE]

IdleReqs == [r \in 1..MaxReq |-> IdleReq]

(* The service started on database d0 at time 0, no request in flight. *)
StartFrom(d0) ==
    /\ now = 0
    /\ subs = d0.subs
    /\ ent = d0.ent
    /\ ledger = d0.ledger
    /\ webhooks = d0.webhooks
    /\ payouts = d0.payouts
    /\ reqs = IdleReqs
    /\ lastSweep = NoDate

Init == StartFrom(EmptyDB)

(* Time passes between operations; here, long enough for a grace period to end. *)
Wait ==
    /\ now + DayUnits(GRACE_DAYS + 1) <= MaxNow
    /\ now' = now + DayUnits(GRACE_DAYS + 1)
    /\ UNCHANGED <<subs, ent, ledger, webhooks, payouts, reqs, lastSweep>>

(* A store sends notifications about its own purchases only: one that names *)
(* an existing IAP subscription comes from the platform that sold it.      *)
Sendable(d, n) ==
    (n.endpoint \in {"appstore", "play"} /\ d.subs[n.ref].exists)
        => d.subs[n.ref].platform = IapPlatform(n)

DeliverWebhook(n, cap) ==
    LET r == webhookRoute(DB, n, now)
    IN  /\ Sendable(DB, n)
        /\ Commit(r.db, cap)
        /\ UNCHANGED <<now, reqs, lastSweep>>

ValidateReceipt(s, uid, platform, cap) ==
    /\ ~subs[s].exists
    /\ Commit(saveIAPSubscription(DB, s, uid, platform, now), cap)
    /\ UNCHANGED <<now, reqs, lastSweep>>

CancelRoute(s, immediate, cap) ==
    /\ subs[s].exists
    /\ Commit(cancelSubscription(DB, s, immediate, now).db, cap)
    /\ UNCHANGED <<now, reqs, lastSweep>>

RenewSubscription(s, cap) ==
    /\ subs[s].exists
    /\ Commit(renewSubscription(DB, s, now).db, cap)
    /\ UNCHANGED <<now, reqs, lastSweep>>

RunDunningJob(cap) ==
    /\ Commit(runDunningJob(DB, now), cap)
    /\ UNCHANGED <<now, reqs, lastSweep>>

RunReconcileJob(failing, cap) ==
    /\ Commit(runReconcileJob(DB, failing, now), cap)
    /\ UNCHANGED <<now, reqs, lastSweep>>

PreparePayout(p, cap) ==
    /\ ~payouts[p].exists
    /\ Commit(preparePayout(DB, p, "u1"), cap)
    /\ UNCHANGED <<now, reqs, lastSweep>>

ApprovePayout(p, tr, cap) ==
    /\ payouts[p].exists /\ payouts[p].status = "queued"
    /\ Commit(approvePayout(DB, p, tr).db, cap)
    /\ UNCHANGED <<now, reqs, lastSweep>>

(* The subscription service: webhooks of the three subscription endpoints, *)
(* the receipt, cancel and renew operations and the dunning job, with time *)
(* passing between them.                                                   *)
SubscriptionOps(cap) ==
    \/ \E n \in SubscriptionNotifications : DeliverWebhook(n, cap)
    \/ \E s \in SubIds, im \in BOOLEAN : CancelRoute(s, im, cap)
    \/ \E s \in SubIds : RenewSubscription(s, cap)
    \/ RunDunningJob(cap)

Next ==
    \/ Wait
    \/ \E s \in IapSubIds, u \in Uids, pl \in Platforms : ValidateReceipt(s, u, pl, FromEmpty)
    \/ SubscriptionOps(FromEmpty)

Spec == Init /\ [][Next]_vars

(* Every operation that writes the ledger, at one instant. *)
NextLedger ==
    \/ \E s \in IapSubIds, u \in Uids, pl \in Platforms : ValidateReceipt(s, u, pl, FromEmpty)
    \/ SubscriptionOps(FromEmpty)
    \/ \E n \in WiseNotifs : DeliverWebhook(n, FromEmpty)
    \/ \E failing \in QueryFailures : RunReconcileJob(failing, FromEmpty)
    \/ \E p \in PayoutIds : PreparePayout(p, FromEmpty)
    \/ \E p \in PayoutIds, tr \in TransferIds : ApprovePayout(p, tr, FromEmpty)

SpecLedger == Init /\ [][NextLedger]_vars

(* A user who holds an Active Stripe subscription and an Active IAP        *)
(* subscription: the database after the Stripe subscription was created    *)
(* and activated and the receipt validated, in either order.               *)
StripeCreated == Notif("stripe", "customer.subscription.created", "sub_s", "incomplete")
StripeActivated == Notif("stripe", "customer.subscription.updated", "sub_s", "active")

StripeThenIap(platform) ==
    LET d1 == webhookRoute(EmptyDB, StripeCreated, 0).db
        d2 == webhookRoute(d1, StripeActivated, 0).db
    IN  saveIAPSubscription(d2, "sub_i", "u1", platform, 0)

IapThenStripe(platform) ==
    LET d1 == saveIAPSubscription(EmptyDB, "sub_i", "u1", platform, 0)
        d2 == webhookRoute(d1, StripeCreated, 0).db
    IN  webhookRoute(d2, StripeActivated, 0).db

TwoActive == {StripeThenIap(pl) : pl \in Platforms} \cup {IapThenStripe(pl) : pl \in Platforms}

InitTwo == \E d0 \in TwoActive : StartFrom(d0)

NextTwo ==
    \/ Wait
    \/ SubscriptionOps(Caps(StripeThenIap("ios"), MaxMore, MaxMoreWebhooks))

SpecTwo == InitTwo /\ [][NextTwo]_vars

(* The same user and operations, with at most MaxMore further dedup        *)
(* documents: the runs in which few new events are admitted.               *)

NextPair ==
    \/ Wait
    \/ SubscriptionOps(Caps(StripeThenIap("ios"), MaxMore, MaxMore))

SpecPair == InitTwo /\ [][NextPair]_vars

---------------------------------------------------------------------------
(* Concurrent deliveries to the App Store endpoint.  A request is one run  *)
(* of the route; it yields at every await, so the requests in flight       *)
(* interleave between their reads and writes of the database.              *)

(* The user of the requests: one with an Active App Store subscription. *)
ActiveIap == saveIAPSubscription(EmptyDB, "sub_i", "u1", "ios", 0)

RenewalNotifs == {n \in AppleNotifs : n.type \in {"DID_RENEW", "DID_FAIL_TO_RENEW"}}

RequestKey(q) ==
    generateWebhookDedupKey(q.n.endpoint, handleAppleWebhook(DB, q.n, now).result.eventId)

(* router.post('/appstore'): the request arrives *)
InFlight(r) == reqs[r].pc \notin {"idle", "done"}

Receive(r, n) ==
    /\ reqs[r].pc = "idle"
    /\ reqs' = [o \in 1..MaxReq |->
                  IF o = r
                    THEN [IdleReq EXCEPT !.pc = "get", !.n = n,
                                         !.overlapped = \E x \in 1..MaxReq : InFlight(x)]
                  ELSE IF InFlight(o) THEN [reqs[o] EXCEPT !.overlapped = TRUE]
                  ELSE reqs[o]]
    /\ UNCHANGED <<now, subs, ent, ledger, webhooks, payouts, lastSweep>>

(* the handler's collections.subscriptions().doc(subscriptionId).get() *)
GetSubscription(r) ==
    /\ reqs[r].pc = "get"
    /\ reqs' = [reqs EXCEPT ![r].subscription = subs[reqs[r].n.ref],
                            ![r].pc = IF subs[reqs[r].n.ref].exists THEN "update" ELSE "check"]
    /\ UNCHANGED <<now, subs, ent, ledger, webhooks, payouts, lastSweep>>

(* the handler's collections.subscriptions().doc(subscriptionId).update(...) *)
UpdateSubscription(r) ==
    LET q == reqs[r]
    IN  /\ q.pc = "update"
        /\ Install(IF q.n.type = "DID_RENEW"
                     THEN iapRenewalUpdate(DB, q.n, q.subscription, now)
                     ELSE iapFailureUpdate(DB, q.n, q.subscription, now))
        /\ reqs' = [reqs EXCEPT ![r].pc = "ledger", ![r].wrote = TRUE]
        /\ UNCHANGED <<now, lastSweep>>

(* the handler's collections.ledger().add(...) *)
AddLedgerEntry(r) ==
    LET q == reqs[r]
    IN  /\ q.pc = "ledger"
        /\ Install(IF q.n.type = "DID_RENEW"
                     THEN iapRenewalLedger(DB, q.n, q.subscription, now)
                     ELSE iapFailureLedger(DB, q.n, q.subscription, now))
        /\ reqs' = [reqs EXCEPT ![r].pc = "check"]
        /\ UNCHANGED <<now, lastSweep>>

(* the route's isWebhookProcessed(dedupKey), and its answer to a duplicate *)
CheckProcessed(r) ==
    LET q == reqs[r]
        alreadyProcessed == isWebhookProcessed(DB, RequestKey(q))
    IN  /\ q.pc = "check"
        /\ reqs' = [reqs EXCEPT ![r].pc = IF alreadyProcessed THEN "done" ELSE "mark",
                                ![r].status = IF alreadyProcessed THEN "already_processed" ELSE ""]
        /\ UNCHANGED <<now, subs, ent, ledger, webhooks, payouts, lastSweep>>

(* the route's markWebhookProcessed(dedupKey, ...), and its answer *)
MarkProcessed(r) ==
    LET q == reqs[r]
    IN  /\ q.pc = "mark"
        /\ Install(markWebhookProcessed(DB, RequestKey(q), RouteProvider(q.n), "processed", now))
        /\ reqs' = [reqs EXCEPT ![r].pc = "done", ![r].status = "processed",
                                ![r].overwrote = isWebhookProcessed(DB, RequestKey(q))]
        /\ UNCHANGED <<now, lastSweep>>

InitConc == StartFrom(ActiveIap)

NextConc ==
    \E r \in 1..MaxReq :
        \/ \E n \in RenewalNotifs : Receive(r, n)
        \/ GetSubscription(r)
        \/ UpdateSubscription(r)
        \/ AddLedgerEntry(r)
        \/ CheckProcessed(r)
        \/ MarkProcessed(r)

SpecConc == InitConc /\ [][NextConc]_vars

---------------------------------------------------------------------------
(* The dunning job on its daily schedule.  The clock moves a unit at a     *)
(* time; the job runs once on every day, at some moment of that day.       *)

DayOf(t) == t \div UnitsPerDay
LastDay == MaxDay - 1

AppleFailed == Notif("appstore", "DID_FAIL_TO_RENEW", "sub_i", "")
StripeFailed == Notif("stripe", "invoice.payment_failed", "sub_s", "")

(* A subscription that entered past_due at time 0, through either provider. *)
PastDueIap == webhookRoute(ActiveIap, AppleFailed, 0).db
PastDueStripe ==
    LET d1 == webhookRoute(EmptyDB, StripeCreated, 0).db
        d2 == webhookRoute(d1, StripeActivated, 0).db
    IN  webhookRoute(d2, StripeFailed, 0).db

InitDunning == StartFrom(PastDueIap) \/ StartFrom(PastDueStripe)

Tick ==
    /\ now < MaxNow
    /\ DayOf(now + 1) > DayOf(now) => lastSweep = DayOf(now)
    /\ now' = now + 1
    /\ UNCHANGED <<subs, ent, ledger, webhooks, payouts, reqs, lastSweep>>

DailySweep ==
    /\ DayOf(now) <= LastDay
    /\ lastSweep < DayOf(now)
    /\ Install(runDunningJob(DB, now))
    /\ lastSweep' = DayOf(now)
    /\ UNCHANGED <<now, reqs>>

NextDunning == Tick \/ DailySweep

SpecDunning == InitDunning /\ [][NextDunning]_vars

---------------------------------------------------------------------------
(* What the claims speak of *)

(* The collections other than the dedup store. *)
BusinessState(d) == [subs |-> d.subs, ent |-> d.ent, ledger |-> d.ledger, payouts |-> d.payouts]

(* A feature flag of a user's entitlement record, as a boolean. *)
HasFeature(e, uid, f) ==
    /\ e[uid].exists
    /\ CASE f = "groupReplay" -> e[uid].groupReplay
         [] f = "oneToOne" -> e[uid].oneToOne
         [] OTHER -> e[uid].androidNoReplay = "true"

(* The features a subscription's provider grants (the template of grantEntitlements). *)
TemplateFeatures(sub) ==
    IF sub.provider = "stripe" THEN {"oneToOne"}
    ELSE IF sub.provider = "iap"
      THEN {"groupReplay"} \cup (IF sub.platform = "android" THEN {"androidNoReplay"} ELSE {})
    ELSE {}

Entitled(sub) == sub.exists /\ sub.status \in EntitledStatuses

(* The union of the templates of a user's Active, Trialing and PastDue subscriptions. *)
UnionOfTemplates(ss, uid) ==
    UNION {TemplateFeatures(ss[s]) : s \in {x \in SubIds : Entitled(ss[x]) /\ ss[x].uid = uid}}

---------------------------------------------------------------------------
(* C1: on every webhook endpoint, when an event with the same (provider,   *)
(* externalEventId) is delivered twice, one delivery after the other, the  *)
(* second delivery is answered as a duplicate and writes nothing to the    *)
(* subscriptions, the entitlements, the payouts or the ledger.             *)

FirstDelivery(n) == webhookRoute(DB, n, now)
SecondDelivery(n) == webhookRoute(FirstDelivery(n).db, n, now)

C1_SecondDeliveryWritesNothing ==
    \A n \in Notifications :
        (Sendable(DB, n) /\ FirstDelivery(n).resp.code = 200) =>
            /\ SecondDelivery(n).resp.status = "already_processed"
            /\ BusinessState(SecondDelivery(n).db) = BusinessState(FirstDelivery(n).db)

---------------------------------------------------------------------------
(* C2: when deliveries of the same (provider, externalEventId) are handled *)
(* concurrently, exactly one of them is admitted (answered "processed");   *)
(* every other one is answered "already_processed" and has run no handler  *)
(* write; and no request writes the dedup record over an existing one.     *)

Done(r) == reqs[r].pc = "done"
DeliveriesOf(n) == {r \in 1..MaxReq : Done(r) /\ reqs[r].overlapped /\ reqs[r].n = n}

C2_ExactlyOneAdmitted ==
    \A n \in RenewalNotifs :
        Cardinality(DeliveriesOf(n)) >= 2 =>
            /\ Cardinality({r \in DeliveriesOf(n) : reqs[r].status = "processed"}) = 1
            /\ \A r \in DeliveriesOf(n) :
                   reqs[r].status # "processed" =>
                       (reqs[r].status = "already_processed" /\ ~reqs[r].wrote)
            /\ \A r \in DeliveriesOf(n) : ~reqs[r].overwrote

---------------------------------------------------------------------------
(* C3: at every quiescent point a user's entitlement record holds exactly  *)
(* the union of the templates of the user's Active, Trialing and PastDue   *)
(* subscriptions: every feature of such a subscription is granted and no   *)
(* other feature is.                                                       *)

C3_EntitlementsAreUnionOfTemplates ==
    \A u \in Uids : \A f \in Features :
        HasFeature(ent, u, f) <=> f \in UnionOfTemplates(subs, u)

---------------------------------------------------------------------------
(* C5: a subscription in Canceled or Ended never changes status again:     *)
(* every later event that names it leaves its status as it is.             *)

C5_TerminalStatusIsFinal ==
    [][\A s \in SubIds :
          (subs[s].exists /\ subs[s].status \in TerminalStatuses)
              => subs'[s].status = subs[s].status]_vars

---------------------------------------------------------------------------
(* C6: when two conflicting events for one subscription have been handled  *)
(* concurrently, the subscription record is the post-state of exactly one  *)
(* of the two transitions and the ledger holds the entries of that         *)
(* transition only.                                                        *)

Conflicting(r1, r2) ==
    /\ r1 # r2
    /\ Done(r1) /\ Done(r2)
    /\ reqs[r1].overlapped /\ reqs[r2].overlapped
    /\ reqs[r1].n.ref = reqs[r2].n.ref
    /\ reqs[r1].n.type # reqs[r2].n.type
    /\ \A r \in 1..MaxReq \ {r1, r2} : reqs[r].pc = "idle"

(* The database one event alone leaves from the state the requests started in. *)
Transition(n) == handleAppleWebhook(ActiveIap, n, 0).db

C6_OneTransitionWins ==
    \A r1 \in 1..MaxReq : \A r2 \in 1..MaxReq :
        Conflicting(r1, r2) =>
            \E w \in {r1, r2} :
                /\ subs[reqs[w].n.ref] = Transition(reqs[w].n).subs[reqs[w].n.ref]
                /\ ledger = Transition(reqs[w].n).ledger

---------------------------------------------------------------------------
(* C7: the ledger is append-only: every step leaves the entries that exist *)
(* in place and unchanged, and every entry it appends has an id different  *)
(* from the id of every other entry.                                       *)

C7_LedgerAppendOnly ==
    [][/\ Len(ledger') >= Len(ledger)
       /\ SubSeq(ledger', 1, Len(ledger)) = ledger
       /\ \A i \in (Len(ledger) + 1)..Len(ledger') : \A j \in 1..Len(ledger') :
              j # i => ledger'[j].id # ledger'[i].id]_vars

(* Entries of two providers are in the ledger, the later appended after the earlier. *)
C7_Witness ==
    /\ Len(ledger) >= 2
    /\ ledger[1].provider # ledger[Len(ledger)].provider

---------------------------------------------------------------------------
(* C8: a subscription's graceUntil is set exactly while its status is      *)
(* PastDue: present on every PastDue subscription, absent on every other.  *)

C8_GraceUntilIffPastDue ==
    \A s \in SubIds :
        subs[s].exists => ((subs[s].graceUntil # NoDate) <=> (subs[s].status = "past_due"))

---------------------------------------------------------------------------
(* C4: for a user holding two Active subscriptions from different          *)
(* providers, a step that revokes one of them (its status becomes Canceled *)
(* by cancel or refund, through any provider path) and leaves the other    *)
(* Active leaves every feature the other contributes still granted.        *)

BothActive(s, o) ==
    /\ s # o
    /\ subs[s].exists /\ subs[o].exists
    /\ subs[s].status = "active" /\ subs[o].status = "active"
    /\ subs[s].uid = subs[o].uid
    /\ subs[s].provider # subs[o].provider

C4_RevokingOneKeepsTheOther ==
    [][\A s \in SubIds : \A o \in SubIds :
          (BothActive(s, o) /\ subs'[s].status = "canceled" /\ subs'[o] = subs[o])
              => \A f \in TemplateFeatures(subs[o]) :
                     HasFeature(ent, subs[o].uid, f) => HasFeature(ent', subs[o].uid, f)]_vars

---------------------------------------------------------------------------
(* C9: a subscription that is moved to PastDue, or stays PastDue, keeps    *)
(* every feature it contributed to its user's entitlements: no step that   *)
(* leaves it PastDue takes one of its granted features away.               *)

C9_PastDueKeepsFeatures ==
    [][\A s \in SubIds :
          (/\ subs[s].exists
           /\ subs[s].status \in {"active", "past_due"}
           /\ subs'[s].status = "past_due")
              => \A f \in TemplateFeatures(subs[s]) :
                     HasFeature(ent, subs[s].uid, f) => HasFeature(ent', subs[s].uid, f)]_vars

---------------------------------------------------------------------------
(* C10: for a subscription that entered PastDue at day 0 and is never      *)
(* renewed, with one dunning run on each of the days 0..8: the milestone   *)
(* ledger entries are written only by the runs of days 0, 1, 3 and 7, the  *)
(* subscription is not canceled before day 7, and it is canceled once the  *)
(* run of day 8 is over.                                                   *)

MilestoneDays == {0, 1, 3, 7}

C10_DunningSchedule ==
    /\ \A i \in 1..Len(ledger) :
           ledger[i].tag = "dunning" => DayOf(ledger[i].ts) \in MilestoneDays
    /\ \A s \in SubIds :
           (subs[s].exists /\ subs[s].status = "canceled") => DayOf(now) >= GRACE_DAYS
    /\ lastSweep = LastDay =>
           \A s \in SubIds : subs[s].exists => subs[s].status = "canceled"

---------------------------------------------------------------------------
(* C11: under daily dunning runs a subscription that entered PastDue at    *)
(* day 0 and is never renewed does not stay PastDue: once a run has taken  *)
(* place after the grace window of GRACE_DAYS days has passed, the         *)
(* subscription is Canceled.                                               *)

C11_CanceledAfterGraceWindow ==
    lastSweep > GRACE_DAYS =>
        \A s \in SubIds : subs[s].exists => subs[s].status # "past_due"

---------------------------------------------------------------------------
(* C12: a reconciliation run appends a mismatch alert entry for a provider *)
(* exactly when the absolute difference between the ledger total and the   *)
(* external total exceeds the tolerance (one cent): every mismatch entry   *)
(* in the ledger carries a difference above the tolerance, and a run       *)
(* writes no entry for a provider whose totals agree.                      *)

MismatchEntries(l) == {i \in 1..Len(l) : l[i].tag = "reconciliation_mismatch"}

C12_MismatchEntryIffDifference ==
    /\ \A i \in MismatchEntries(ledger) : ledger[i].amount >= 1
    /\ \A failing \in QueryFailures : \A pr \in Providers :
           LET result == reconcileProvider(DB, pr, pr \in failing, getStartDate(now), now)
               after == runReconcileJob(DB, failing, now).ledger
           IN  (\E i \in MismatchEntries(after) : i > Len(ledger) /\ after[i].provider = pr)
                   <=> Abs(result.ledgerTotal - result.providerTotal) >= 1

---------------------------------------------------------------------------
(* C13: a repeated delivery of an event that was already processed is      *)
(* answered with the outcome recorded for the first delivery: the response *)
(* of the second delivery equals the response of the first.                *)

C13_SecondResponseEqualsFirst ==
    \A n \in Notifications :
        (Sendable(DB, n) /\ FirstDelivery(n).resp.code = 200) =>
            SecondDelivery(n).resp = FirstDelivery(n).resp

---------------------------------------------------------------------------
(* The webhook routes when the dedup store may be unavailable: the read of *)
(* isWebhookProcessed or the write of markWebhookProcessed fails.          *)

StoreFaults == {[read |-> r, write |-> w] : r \in BOOLEAN, w \in BOOLEAN}

(* isWebhookProcessed: catch (error) { return false } *)
isWebhookProcessedOrFalse(d, dedupKey, readFails) ==
    IF readFails THEN FALSE ELSE isWebhookProcessed(d, dedupKey)

(* A markWebhookProcessed whose set() lands before the error is raised:     *)
(* the document is there although the call threw.                          *)
markWebhookProcessedThenThrow(d, dedupKey, provider, status, t, writeFails) ==
    IF writeFails THEN Throw(markWebhookProcessed(d, dedupKey, provider, status, t))
    ELSE Ok(markWebhookProcessed(d, dedupKey, provider, status, t))

(* markWebhookProcessed: catch (error) { throw error } *)
markWebhookProcessedOrThrow(d, dedupKey, provider, status, t, writeFails) ==
    IF writeFails THEN Throw(d) ELSE Ok(markWebhookProcessed(d, dedupKey, provider, status, t))

(* One whole delivery to a route under a fault of the dedup store. *)
webhookRouteUnder(d, n, t, fault) ==
    LET r == adapterHandleWebhook(d, n, t)
        dedupKey == generateWebhookDedupKey(n.endpoint, r.result.eventId)
        status == IF r.result.processed THEN "processed" ELSE "ignored"
        m == markWebhookProcessedOrThrow(r.db, dedupKey, RouteProvider(n), status, t,
                                         fault.write)
    IN  IF r.err
          THEN [db |-> r.db, resp |-> Response(n, 400, "error")]
        ELSE IF isWebhookProcessedOrFalse(r.db, dedupKey, fault.read)
          THEN [db |-> r.db, resp |-> Response(n, 200, "already_processed")]
        ELSE IF m.err
          THEN [db |-> m.db, resp |-> Response(n, 400, "error")]
        ELSE [db |-> m.db, resp |-> Response(n, 200, status)]

DeliverWebhookUnder(n, fault, cap) ==
    /\ Sendable(DB, n)
    /\ Commit(webhookRouteUnder(DB, n, now, fault).db, cap)
    /\ UNCHANGED <<now, reqs, lastSweep>>

NextOutage ==
    \/ \E s \in IapSubIds, u \in Uids, pl \in Platforms : ValidateReceipt(s, u, pl, FromEmpty)
    \/ \E n \in SubscriptionNotifications, fault \in StoreFaults :
           DeliverWebhookUnder(n, fault, FromEmpty)

SpecOutage == Init /\ [][NextOutage]_vars

---------------------------------------------------------------------------
(* C14: if the dedup store is unavailable while an event is admitted (its  *)
(* read or its write fails), admission fails closed: the delivery is not   *)
(* answered as a success, so that the notifier delivers the event again.   *)

C14_AdmissionFailsClosed ==
    \A n \in SubscriptionNotifications : \A fault \in StoreFaults :
        (Sendable(DB, n) /\ (fault.read \/ fault.write)) =>
            webhookRouteUnder(DB, n, now, fault).resp.code # 200

---------------------------------------------------------------------------
(* C15: on every path that handles a failed renewal of an Active or        *)
(* Trialing subscription (the Stripe webhook, the IAP webhook, the         *)
(* subscription manager) the subscription becomes PastDue, graceUntil is   *)
(* now + GRACE_DAYS, exactly one payment.failed ledger entry is appended   *)
(* and the user's entitlements are unchanged.                              *)

Renewable(s) == subs[s].exists /\ subs[s].status \in {"active", "trialing"}

FailedRenewalApplied(d1, s) ==
    /\ d1.subs[s].status = "past_due"
    /\ d1.subs[s].graceUntil = now + DayUnits(GRACE_DAYS)
    /\ Len(d1.ledger) = Len(ledger) + 1
    /\ SubSeq(d1.ledger, 1, Len(ledger)) = ledger
    /\ d1.ledger[Len(d1.ledger)].type = "payment.failed"
    /\ d1.ent = ent

StripePathFailedRenewal(s) ==
    handleInvoicePaymentFailed(DB, Notif("stripe", "invoice.payment_failed", s, ""), now).db

IapPathFailedRenewal(s) ==
    handleIAPRenewalFailure(DB, Notif("appstore", "DID_FAIL_TO_RENEW", s, ""), now).db

ManagerPathFailedRenewal(s) == handleFailedRenewal(DB, s, 0, now).db

C15_FailedRenewalOnEveryPath ==
    \A s \in SubIds :
        Renewable(s) =>
            /\ subs[s].provider = "stripe" => FailedRenewalApplied(StripePathFailedRenewal(s), s)
            /\ subs[s].provider = "iap" => FailedRenewalApplied(IapPathFailedRenewal(s), s)
            /\ FailedRenewalApplied(ManagerPathFailedRenewal(s), s)

---------------------------------------------------------------------------
(* C16: a successful renewal applied to a PastDue subscription makes it    *)
(* Active, clears graceUntil and appends exactly one subscription.renewed  *)
(* ledger entry; where the code computes the period (the manager and the   *)
(* IAP webhook) the new period starts at the old period end and lasts one  *)
(* billing cycle.  On the Stripe webhook the period is the one the payload *)
(* carries.                                                                *)

PastDue(s) == subs[s].exists /\ subs[s].status = "past_due"

RenewalApplied(d1, s) ==
    /\ d1.subs[s].status = "active"
    /\ d1.subs[s].graceUntil = NoDate
    /\ Len(d1.ledger) = Len(ledger) + 1
    /\ SubSeq(d1.ledger, 1, Len(ledger)) = ledger
    /\ d1.ledger[Len(d1.ledger)].type = "subscription.renewed"

PeriodAdvanced(d1, s) ==
    /\ d1.subs[s].currentPeriodStart = subs[s].currentPeriodEnd
    /\ d1.subs[s].currentPeriodEnd = d1.subs[s].currentPeriodStart + DayUnits(PERIOD_DAYS)

ManagerPathRenewal(s) == renewSubscription(DB, s, now).db

IapPathRenewal(s) == handleIAPRenewal(DB, Notif("appstore", "DID_RENEW", s, ""), now).db

StripePathRenewal(s) ==
    handleSubscriptionUpdated(DB, Notif("stripe", "customer.subscription.updated", s, "active"),
                              now).db

RenewalOnManagerAndIapPaths(s) ==
    /\ RenewalApplied(ManagerPathRenewal(s), s) /\ PeriodAdvanced(ManagerPathRenewal(s), s)
    /\ subs[s].provider = "iap" =>
           RenewalApplied(IapPathRenewal(s), s) /\ PeriodAdvanced(IapPathRenewal(s), s)

C16_RenewalOfPastDue ==
    \A s \in SubIds :
        PastDue(s) =>
            /\ RenewalOnManagerAndIapPaths(s)
            /\ subs[s].provider = "stripe" => RenewalApplied(StripePathRenewal(s), s)

---------------------------------------------------------------------------
(* C17: PaymentSucceeded applied to an Incomplete subscription leaves it   *)
(* Active with its period bounds set, appends exactly one                  *)
(* subscription.created ledger entry, and the user's entitlements then     *)
(* include the feature set of the subscription's provider.                 *)

Incomplete(s) == subs[s].exists /\ subs[s].status = "incomplete"

ActivationApplied(d1, s) ==
    /\ d1.subs[s].status = "active"
    /\ d1.subs[s].currentPeriodStart # NoDate
    /\ d1.subs[s].currentPeriodEnd > d1.subs[s].currentPeriodStart
    /\ Len(d1.ledger) = Len(ledger) + 1
    /\ SubSeq(d1.ledger, 1, Len(ledger)) = ledger
    /\ d1.ledger[Len(d1.ledger)].type = "subscription.created"
    /\ \A f \in TemplateFeatures(d1.subs[s]) : HasFeature(d1.ent, d1.subs[s].uid, f)

PaymentSucceededApplied(s) ==
    handleInvoicePaymentSucceeded(DB, Notif("stripe", "invoice.payment_succeeded", s, ""),
                                  now).db

C17_PaymentSucceededActivates ==
    \A s \in SubIds : Incomplete(s) => ActivationApplied(PaymentSucceededApplied(s), s)

---------------------------------------------------------------------------
(* C18: a Refunded event for a subscription in any non-terminal state,     *)
(* from any provider, moves the subscription to Canceled at once, sets its *)
(* period end to now and appends exactly one refund.succeeded ledger       *)
(* entry.                                                                  *)

NonTerminal(s) == subs[s].exists /\ subs[s].status \notin TerminalStatuses

RefundApplied(d1, s) ==
    /\ d1.subs[s].status = "canceled"
    /\ d1.subs[s].currentPeriodEnd = now
    /\ Len(d1.ledger) = Len(ledger) + 1
    /\ SubSeq(d1.ledger, 1, Len(ledger)) = ledger
    /\ d1.ledger[Len(d1.ledger)].type = "refund.succeeded"

StripePathRefund(s) ==
    handleChargeRefunded(DB, Notif("stripe", "charge.refunded", s, ""), now).db

IapPathRefund(s) == handleIAPRefund(DB, Notif("appstore", "REFUND", s, ""), now).db

C18_RefundCancelsAtOnce ==
    \A s \in SubIds :
        NonTerminal(s) =>
            /\ subs[s].provider = "stripe" => RefundApplied(StripePathRefund(s), s)
            /\ subs[s].provider = "iap" => RefundApplied(IapPathRefund(s), s)

---------------------------------------------------------------------------
(* C19: whenever a PastDue subscription is moved to Canceled because its   *)
(* grace period expired, by the grace-expiry check or by a dunning step,   *)
(* one subscription.canceled ledger entry that references the subscription *)
(* is appended.                                                            *)

GraceExpired(s) == PastDue(s) /\ subs[s].graceUntil # NoDate /\ subs[s].graceUntil < now

CanceledEntriesOf(l, s) ==
    {i \in 1..Len(l) : l[i].type = "subscription.canceled" /\ l[i].refId = s}

ExpiryRecorded(d1, s) ==
    d1.subs[s].status = "canceled" =>
        Cardinality(CanceledEntriesOf(d1.ledger, s)) = Cardinality(CanceledEntriesOf(ledger, s)) + 1

C19_GraceExpiryIsRecorded ==
    \A s \in SubIds :
        GraceExpired(s) =>
            /\ ExpiryRecorded(checkGracePeriodExpiry(DB, now), s)
            /\ ExpiryRecorded(handleFailedRenewal(DB, s, 2, now).db, s)
            /\ ExpiryRecorded(runDunningJob(DB, now), s)

---------------------------------------------------------------------------
(* C20: a deferred (user) cancel of a non-terminal subscription sets       *)
(* cancelAtPeriodEnd and leaves the status, the period bounds, graceUntil  *)
(* and the user's entitlements as they were; exactly one                   *)
(* subscription.canceled ledger entry carrying the deferred marker is      *)
(* appended.                                                               *)

DeferredCancelApplied(d1, s) ==
    /\ d1.subs[s].cancelAtPeriodEnd
    /\ d1.subs[s].status = subs[s].status
    /\ d1.subs[s].currentPeriodStart = subs[s].currentPeriodStart
    /\ d1.subs[s].currentPeriodEnd = subs[s].currentPeriodEnd
    /\ d1.subs[s].graceUntil = subs[s].graceUntil
    /\ d1.ent = ent
    /\ Len(d1.ledger) = Len(ledger) + 1
    /\ SubSeq(d1.ledger, 1, Len(ledger)) = ledger
    /\ d1.ledger[Len(d1.ledger)].type = "subscription.canceled"
    /\ d1.ledger[Len(d1.ledger)].refId = s
    /\ d1.ledger[Len(d1.ledger)].tag = "cancelAtPeriodEnd"

ManagerPathDeferredCancel(s) == cancelSubscription(DB, s, FALSE, now).db

IapPathDeferredCancel(s) == handleIAPCancellation(DB, Notif("appstore", "CANCEL", s, ""), now).db

C20_DeferredCancelFrame ==
    \A s \in SubIds :
        NonTerminal(s) =>
            /\ DeferredCancelApplied(ManagerPathDeferredCancel(s), s)
            /\ subs[s].provider = "iap" => DeferredCancelApplied(IapPathDeferredCancel(s), s)

---------------------------------------------------------------------------
(* C21: an immediate cancel moves the subscription directly to Canceled    *)
(* with its period end set to now and appends exactly one                  *)
(* subscription.canceled ledger entry; the user's entitlements are cleared *)
(* when the user has no other subscription in Active, Trialing or PastDue, *)
(* and are left as they were when the user has one.                        *)

OtherEntitled(s) ==
    \E o \in SubIds \ {s} : Entitled(subs[o]) /\ subs[o].uid = subs[s].uid

ImmediateCancelApplied(d1, s) ==
    /\ d1.subs[s].status = "canceled"
    /\ d1.subs[s].currentPeriodEnd = now
    /\ Len(d1.ledger) = Len(ledger) + 1
    /\ SubSeq(d1.ledger, 1, Len(ledger)) = ledger
    /\ d1.ledger[Len(d1.ledger)].type = "subscription.canceled"
    /\ d1.ledger[Len(d1.ledger)].refId = s
    /\ IF OtherEntitled(s)
         THEN d1.ent = ent
         ELSE \A f \in Features : ~HasFeature(d1.ent, subs[s].uid, f)

ManagerPathImmediateCancel(s) == cancelSubscription(DB, s, TRUE, now).db

C21_ImmediateCancel ==
    \A s \in SubIds : subs[s].exists => ImmediateCancelApplied(ManagerPathImmediateCancel(s), s)

(* An immediate cancel has been applied to one of a user's two             *)
(* subscriptions while the other is still entitled, and the user still     *)
(* holds a feature.                                                        *)
C21_Witness ==
    /\ ledger # <<>>
    /\ ledger[Len(ledger)].type = "subscription.canceled"
    /\ ledger[Len(ledger)].tag = "immediate"
    /\ subs[ledger[Len(ledger)].refId].status = "canceled"
    /\ OtherEntitled(ledger[Len(ledger)].refId)
    /\ \E f \in Features : HasFeature(ent, "u1", f)


---------------------------------------------------------------------------
(* C22: whenever a subscription ends, by grace expiry in the dunning       *)
(* sweep, by provider-side deletion, by refund or by pause, a feature is   *)
(* cleared from the user's entitlements only if no other subscription of   *)
(* the user in Active, Trialing or PastDue grants it.                      *)

(* Subscription s, entitled before, is not entitled in d1, and every       *)
(* feature the user held that another entitled subscription grants is      *)
(* still held in d1.                                                       *)
EndedKeepingOthersFeatures(d1, s) ==
    (Entitled(subs[s]) /\ ~Entitled(d1.subs[s])) =>
        \A f \in Features :
            (/\ HasFeature(ent, subs[s].uid, f)
             /\ \E o \in SubIds \ {s} :
                    /\ Entitled(d1.subs[o])
                    /\ d1.subs[o].uid = subs[s].uid
                    /\ f \in TemplateFeatures(d1.subs[o]))
                => HasFeature(d1.ent, subs[s].uid, f)

DunningPathExpiry(s) == runDunningJob(DB, now)
ExpiryCheckPath(s) == checkGracePeriodExpiry(DB, now)
ManagerPathExpiry(s) == handleFailedRenewal(DB, s, 2, now).db
StripePathDeletion(s) ==
    handleSubscriptionDeleted(DB, Notif("stripe", "customer.subscription.deleted", s, ""), now).db
PlayPathPause(s) == handleIAPPause(DB, Notif("play", "10", s, ""), now).db

C22_EndingKeepsOthersFeatures ==
    \A s \in SubIds :
        subs[s].exists =>
            /\ EndedKeepingOthersFeatures(DunningPathExpiry(s), s)
            /\ EndedKeepingOthersFeatures(ExpiryCheckPath(s), s)
            /\ EndedKeepingOthersFeatures(ManagerPathExpiry(s), s)
            /\ subs[s].provider = "stripe" =>
                   EndedKeepingOthersFeatures(StripePathDeletion(s), s)
            /\ subs[s].provider = "iap" =>
                   /\ EndedKeepingOthersFeatures(IapPathRefund(s), s)
                   /\ EndedKeepingOthersFeatures(PlayPathPause(s), s)


---------------------------------------------------------------------------
(* C23: an event that references a subscription id for which no record     *)
(* exists changes no subscription and no entitlement, appends no ledger    *)
(* entry, raises no error, and is answered as accepted and unprocessed     *)
(* (processed = false).                                                    *)

(* The notifications whose handler looks up the subscription they name. *)
ReferencesSubscription(n) ==
    IF n.endpoint = "stripe"
      THEN n.type \in {"invoice.payment_failed", "customer.subscription.updated",
                       "customer.subscription.deleted"}
      ELSE n.endpoint \in {"appstore", "play"}

LeavesRecordsAlone(d1) == d1.subs = subs /\ d1.ent = ent /\ d1.ledger = ledger

C23_MissingSubscriptionIsUnprocessed ==
    \A n \in SubscriptionNotifications :
        (ReferencesSubscription(n) /\ ~subs[n.ref].exists) =>
            /\ LeavesRecordsAlone(webhookRoute(DB, n, now).db)
            /\ ~adapterHandleWebhook(DB, n, now).err
            /\ ~adapterHandleWebhook(DB, n, now).result.processed
            /\ webhookRoute(DB, n, now).resp.code = 200
            /\ LeavesRecordsAlone(handleFailedRenewal(DB, n.ref, 0, now).db)
            /\ ~handleFailedRenewal(DB, n.ref, 0, now).err


---------------------------------------------------------------------------
(* C24: an event whose kind its adapter does not recognise causes no       *)
(* subscription, entitlement, payout or ledger write, is answered with a   *)
(* success status that carries processed = false (not an error), and is    *)
(* recorded in the dedup store with status 'ignored'.                      *)

(* The kinds that fall to the default branch of the adapter's switch. *)
Unrecognised(n) ==
    CASE n.endpoint = "stripe" ->
             n.type \notin {"invoice.payment_succeeded", "invoice.payment_failed",
                            "customer.subscription.created", "customer.subscription.updated",
                            "customer.subscription.deleted", "charge.refunded"}
      [] n.endpoint = "appstore" ->
             n.type \notin {"INITIAL_BUY", "DID_RENEW", "DID_FAIL_TO_RENEW", "REFUND", "CANCEL"}
      [] n.endpoint = "play" -> n.type \notin {"1", "2", "7", "3", "12", "10", "11"}
      [] OTHER ->
             n.type \notin {"outgoing_payment_sent", "funds_converted", "bounced_back",
                            "funds_refunded"}

DedupKeyOf(n) ==
    generateWebhookDedupKey(n.endpoint, adapterHandleWebhook(DB, n, now).result.eventId)

(* The dedup documents the delivery of n leaves under n's key. *)
RecordsOf(n) == {w \in webhookRoute(DB, n, now).db.webhooks : w.dedupKey = DedupKeyOf(n)}

C24_UnrecognisedIsIgnored ==
    \A n \in Notifications :
        (Sendable(DB, n) /\ Unrecognised(n)) =>
            /\ BusinessState(webhookRoute(DB, n, now).db) = BusinessState(DB)
            /\ webhookRoute(DB, n, now).resp.code = 200
            /\ ~isWebhookProcessed(DB, DedupKeyOf(n)) =>
                   webhookRoute(DB, n, now).resp.status = "ignored"
            /\ \A w \in RecordsOf(n) : w.status = "ignored"
            /\ RecordsOf(n) # {}


---------------------------------------------------------------------------
(* The dunning job when a step of processDunningAttempt fails for some     *)
(* subscriptions: sending the reminder, regenerating the payment link,     *)
(* writing the ledger entry, or handleFailedRenewal, which rejects either  *)
(* before it writes ("transition") or, on its expiry branch, after the     *)
(* status was written and before the entitlements are ("revoke").          *)

FaultKinds == {"none", "reminder", "link", "ledger", "transition", "revoke"}
DunningFaults == [SubIds -> FaultKinds]

(* The runs in which the steps of at most one subscription fail. *)
FaultsOnOne == {f \in DunningFaults : Cardinality({s \in SubIds : f[s] # "none"}) <= 1}

handleFailedRenewalUnder(d, subscriptionId, attempt, t, fault) ==
    IF fault = "transition"
      THEN Throw(d)
    ELSE IF /\ fault = "revoke"
            /\ d.subs[subscriptionId].exists
            /\ attempt # 0
            /\ d.subs[subscriptionId].graceUntil # NoDate
            /\ t > d.subs[subscriptionId].graceUntil
      THEN Throw(updateSubscriptionStatus(d, subscriptionId, "canceled", t).db)
    ELSE handleFailedRenewal(d, subscriptionId, attempt, t)

(* processDunningAttempt with its catch taken out: the failure of a step   *)
(* leaves the function as an exception.                                    *)
processDunningAttemptRethrowing(d, s, uid, attemptNumber, t, fault) ==
    IF fault \in {"reminder", "link", "ledger"}
      THEN Throw(d)
      ELSE handleFailedRenewalUnder(
               LedgerAdd(d, Entry(t, "payment.failed", s, "stripe", 0, uid, "dunning",
                                  attemptNumber)),
               s, attemptNumber, t, fault)

(* try { reminder; link; ledger().add; handleFailedRenewal } catch { log } *)
processDunningAttemptUnder(d, s, uid, attemptNumber, t, fault) ==
    IF fault \in {"reminder", "link", "ledger"}
      THEN Ok(d)
      ELSE Ok(handleFailedRenewalUnder(
                  LedgerAdd(d, Entry(t, "payment.failed", s, "stripe", 0, uid, "dunning",
                                     attemptNumber)),
                  s, attemptNumber, t, fault).db)

(* for (const attempt of attempts) await processDunningAttempt(attempt):   *)
(* an exception that leaves processDunningAttempt ends the loop.           *)
RECURSIVE ProcessAttemptsUnder(_, _, _, _, _)
ProcessAttemptsUnder(r, d0, i, t, faults) ==
    IF r.err \/ i > Len(SubOrder) THEN r
    ELSE LET s == SubOrder[i]
             a == DunningAttemptOf(d0, s, t)
         IN  ProcessAttemptsUnder(
                 IF a # NoAttempt
                   THEN processDunningAttemptUnder(r.db, s, d0.subs[s].uid, a, t, faults[s])
                   ELSE r,
                 d0, i + 1, t, faults)

runDunningJobUnder(d, t, faults) ==
    LET r == ProcessAttemptsUnder(Ok(d), d, 1, t, faults)
    IN  IF r.err THEN Throw(r.db) ELSE Ok(checkGracePeriodExpiry(r.db, t))

(* A user whose Stripe and App Store subscriptions both failed to renew at *)
(* time 0.                                                                 *)
PastDuePair ==
    webhookRoute(webhookRoute(IapThenStripe("ios"), AppleFailed, 0).db, StripeFailed, 0).db

InitSweep == StartFrom(PastDuePair)

SweepCaps == Caps(PastDuePair, MaxMore, MaxMore)

(* The day's run of the job, in which steps may fail. *)
SweepUnder(faults) ==
    /\ DayOf(now) <= LastDay
    /\ lastSweep < DayOf(now)
    /\ Commit(runDunningJobUnder(DB, now, faults).db, SweepCaps)
    /\ lastSweep' = DayOf(now)
    /\ UNCHANGED <<now, reqs>>

(* The clock, the day's run of the job, and the user asking once, while in *)
(* grace, for the App Store subscription to end with its period.           *)
NextSweep ==
    \/ Tick
    \/ \E faults \in FaultsOnOne : SweepUnder(faults)
    \/ \E s \in IapSubIds : ~subs[s].cancelAtPeriodEnd /\ CancelRoute(s, FALSE, SweepCaps)

SpecSweep == InitSweep /\ [][NextSweep]_vars

---------------------------------------------------------------------------
(* C25: within one dunning sweep a failure while handling one subscription *)
(* (the reminder, the payment link, the milestone ledger entry or the      *)
(* transition) is not propagated: the run does not fail, every other       *)
(* PastDue subscription due in the sweep is processed as in a run without  *)
(* failures, and the grace-expiry check still runs.                        *)

(* The milestone entries of subscription s, in order, apart from the       *)
(* document ids the ledger gave them.                                      *)
DunningEntriesOf(l, s) ==
    LET sel == SelectSeq(l, LAMBDA e : e.tag = "dunning" /\ e.refId = s)
    IN  [i \in 1..Len(sel) |-> [sel[i] EXCEPT !.id = 0]]

C25_SweepIsolatesFailures ==
    \A faults \in FaultsOnOne :
        LET swept == runDunningJobUnder(DB, now, faults)
            plain == runDunningJob(DB, now)
        IN  /\ ~swept.err
            /\ \A o \in SubIds :
                   faults[o] = "none" =>
                       /\ swept.db.subs[o] = plain.subs[o]
                       /\ DunningEntriesOf(swept.db.ledger, o) = DunningEntriesOf(plain.ledger, o)
            /\ ExpiredGrace(swept.db, now) = {}

(* Today's run wrote the milestone entry of the Stripe subscription and    *)
(* none for the App Store subscription, which is PastDue as well.          *)
C25_Witness ==
    /\ lastSweep = DayOf(now)
    /\ subs["sub_i"].status = "past_due"
    /\ \E i \in 1..Len(ledger) :
           /\ ledger[i].tag = "dunning" /\ ledger[i].refId = "sub_s"
           /\ DayOf(ledger[i].ts) = lastSweep
    /\ \A i \in 1..Len(ledger) :
           (ledger[i].tag = "dunning" /\ ledger[i].refId = "sub_i") =>
               DayOf(ledger[i].ts) # lastSweep


---------------------------------------------------------------------------
(* C26: for every subscription in every reachable state, currentPeriodEnd  *)
(* is later than currentPeriodStart, after any sequence of create, renew,  *)
(* immediate cancel, refund and provider-update operations.  The clock of  *)
(* the model counts whole units, so two instants of one unit read the      *)
(* same; what is checked is that no period end lies before its period      *)
(* start, in the state reached and after one more immediate cancel or      *)
(* refund.                                                                 *)

PeriodOrdered(d1, s) == d1.subs[s].currentPeriodEnd >= d1.subs[s].currentPeriodStart

C26_PeriodEndAfterStart ==
    \A s \in SubIds :
        subs[s].exists =>
            /\ PeriodOrdered(DB, s)
            /\ PeriodOrdered(ManagerPathImmediateCancel(s), s)
            /\ subs[s].provider = "iap" => PeriodOrdered(IapPathRefund(s), s)


---------------------------------------------------------------------------
(* C27: pausing an Active subscription suspends its entitlement            *)
(* contribution without putting the record into a terminal state, and a    *)
(* later Resumed event returns the subscription to Active with its         *)
(* features granted to the user again.                                     *)

Paused(s) == subs[s].exists /\ subs[s].status = "paused"

(* SUBSCRIPTION_RESTARTED (7) of the Play endpoint: the subscription resumes. *)
PlayPathResume(s) == handleGoogleWebhook(DB, Notif("play", "7", s, ""), now).db

PauseApplied(d1, s) ==
    /\ d1.subs[s].exists
    /\ d1.subs[s].status \notin TerminalStatuses
    /\ d1.subs[s].status \notin EntitledStatuses
    /\ \A f \in TemplateFeatures(subs[s]) : ~HasFeature(d1.ent, subs[s].uid, f)

ResumeApplied(d1, s) ==
    /\ d1.subs[s].status = "active"
    /\ \A f \in TemplateFeatures(subs[s]) : HasFeature(d1.ent, subs[s].uid, f)

C27_PauseThenResume ==
    \A s \in IapSubIds :
        /\ (subs[s].exists /\ subs[s].status = "active" /\ subs[s].platform = "android")
               => PauseApplied(PlayPathPause(s), s)
        /\ Paused(s) => ResumeApplied(PlayPathResume(s), s)


---------------------------------------------------------------------------
(* C28: granting entitlements for a user's only entitled subscription      *)
(* yields the mapping of its provider: Stripe gives oneToOne = true and    *)
(* groupReplay = false; IAP gives groupReplay = true and oneToOne = false; *)
(* IAP on Android gives androidNoReplay = true as well.                    *)

OnlyEntitled(s) == Entitled(subs[s]) /\ ~OtherEntitled(s)

ProviderMapping(e, sub) ==
    /\ e[sub.uid].exists
    /\ sub.provider = "stripe" => (e[sub.uid].oneToOne /\ ~e[sub.uid].groupReplay)
    /\ sub.provider = "iap" => (e[sub.uid].groupReplay /\ ~e[sub.uid].oneToOne)
    /\ (sub.provider = "iap" /\ sub.platform = "android") => e[sub.uid].androidNoReplay = "true"

ManagerPathActivation(s) == updateSubscriptionStatus(DB, s, "active", now).db

C28_GrantYieldsProviderMapping ==
    \A s \in SubIds :
        OnlyEntitled(s) =>
            /\ ProviderMapping(grantEntitlements(DB, subs[s]).ent, subs[s])
            /\ ProviderMapping(ManagerPathActivation(s).ent, subs[s])
            /\ ProviderMapping(ManagerPathRenewal(s).ent, subs[s])

(* The user's only entitled subscription is an Android one whose renewal   *)
(* through the manager was the last operation, and the user holds the IAP  *)
(* mapping with the Android flag.                                          *)
C28_Witness ==
    /\ OnlyEntitled("sub_i")
    /\ subs["sub_i"].platform = "android"
    /\ ledger # <<>>
    /\ ledger[Len(ledger)].type = "subscription.renewed"
    /\ ledger[Len(ledger)].refId = "sub_i"
    /\ ledger[Len(ledger)].amount = 0
    /\ ProviderMapping(ent, subs["sub_i"])


---------------------------------------------------------------------------
(* lib/idempotency and the uid-scoped API routes *)

IDEMPOTENCY_TTL == DayUnits(1)

ApiCallers == {"u1", "u2"}
ApiRoles == {"student", "admin"}
NoKey == ""
IdempotencyKeys == {"k1", "k2"}
ApiRoutes == {"iap_validate", "stripe_subscriptions", "get_subscription", "user_subscriptions"}

(* A request as the route sees it after authenticateUser: req.user (caller, *)
(* role), the uid of the body or path, the Idempotency-Key header, and the  *)
(* subscription the request is about (the id the provider hands out, or    *)
(* the :id of the path).                                                   *)
ApiRequests ==
    [route : ApiRoutes, caller : ApiCallers, role : ApiRoles, uid : Uids,
     key : {NoKey} \cup IdempotencyKeys, ref : SubIds, platform : Platforms]

(* A response body: the user whose data it carries ("" for an error body)  *)
(* and the subscription it names.                                          *)
Body(kind, uid, ref) == [kind |-> kind, uid |-> uid, ref |-> ref]
ApiResponse(code, body) == [code |-> code, body |-> body]
Forbidden == ApiResponse(403, Body("Forbidden", "", ""))
NotFound == ApiResponse(404, Body("Not Found", "", ""))

(* The document of collection 'webhooks' that store() writes under the key *)
IdempotencyDocId(key) == <<"idempotency-key", key>>

IdempotencyRecords(d, key, t) ==
    {w \in d.webhooks : w.dedupKey = IdempotencyDocId(key) /\ w.expiresAt > t}

(* IdempotencyService.check *)
idempotencyCheck(d, key, t) == IdempotencyRecords(d, key, t) # {}

(* IdempotencyService.store *)
idempotencyStore(d, key, response, statusCode, t) ==
    [d EXCEPT !.webhooks = {w \in @ : w.dedupKey # IdempotencyDocId(key)} \cup
        {[dedupKey |-> IdempotencyDocId(key), response |-> response,
          statusCode |-> statusCode, createdAt |-> t, expiresAt |-> t + IDEMPOTENCY_TTL]}]

(* req.user?.uid !== uid && req.user?.role !== 'admin' *)
NotAuthorized(q, uid) == q.caller # uid /\ q.role # "admin"

(* router.post('/validate'), the handler behind the middlewares *)
validateHandler(d, q, t) ==
    IF NotAuthorized(q, q.uid)
      THEN [db |-> d, resp |-> Forbidden]
    ELSE [db |-> saveIAPSubscription(d, q.ref, q.uid, q.platform, t),
          resp |-> ApiResponse(200, Body("success", q.uid, q.ref))]

(* router.post('/subscriptions'), the handler behind the middlewares: the  *)
(* session is created at Stripe, no collection is written.                 *)
createSubscriptionHandler(d, q, t) ==
    IF NotAuthorized(q, q.uid)
      THEN [db |-> d, resp |-> Forbidden]
    ELSE [db |-> d, resp |-> ApiResponse(200, Body("success", q.uid, q.ref))]

(* router.get('/:id') *)
getSubscriptionRoute(d, q, t) ==
    IF ~d.subs[q.ref].exists
      THEN [db |-> d, resp |-> NotFound]
    ELSE IF NotAuthorized(q, d.subs[q.ref].uid)
      THEN [db |-> d, resp |-> Forbidden]
    ELSE [db |-> d, resp |-> ApiResponse(200, Body("success", d.subs[q.ref].uid, q.ref))]

(* router.get('/users/:uid/subscriptions') *)
userSubscriptionsRoute(d, q, t) ==
    IF NotAuthorized(q, q.uid)
      THEN [db |-> d, resp |-> Forbidden]
    ELSE [db |-> d, resp |-> ApiResponse(200, Body("success", q.uid, ""))]

postHandler(d, q, t) ==
    IF q.route = "iap_validate" THEN validateHandler(d, q, t)
    ELSE createSubscriptionHandler(d, q, t)

(* idempotencyMiddleware, then the handler; res.json stores the response   *)
idempotencyMiddleware(d, q, t) ==
    IF q.key = NoKey
      THEN postHandler(d, q, t)
    ELSE IF idempotencyCheck(d, q.key, t)
      THEN LET existing == CHOOSE w \in IdempotencyRecords(d, q.key, t) : TRUE
           IN  [db |-> d, resp |-> ApiResponse(existing.statusCode, existing.response)]
    ELSE LET h == postHandler(d, q, t)
         IN  [db |-> idempotencyStore(h.db, q.key, h.resp.body, h.resp.code, t),
              resp |-> h.resp]

apiRoute(d, q, t) ==
    CASE q.route \in {"iap_validate", "stripe_subscriptions"} -> idempotencyMiddleware(d, q, t)
      [] q.route = "get_subscription" -> getSubscriptionRoute(d, q, t)
      [] OTHER -> userSubscriptionsRoute(d, q, t)

(* The uid the route guards: the subscription's owner for /:id, the uid of *)
(* the body or the path for the others.                                    *)
TargetUid(d, q) ==
    IF q.route = "get_subscription"
      THEN (IF d.subs[q.ref].exists THEN d.subs[q.ref].uid ELSE "")
    ELSE q.uid

(* A request the service can receive: a provider hands out a new           *)
(* subscription id for every receipt it validates, and a route without the *)
(* middleware ignores the header.                                          *)
Receivable(d, q, t) ==
    /\ q.route = "iap_validate" =>
          (q.ref \in IapSubIds /\
           (~d.subs[q.ref].exists \/ NotAuthorized(q, q.uid)
              \/ (q.key # NoKey /\ idempotencyCheck(d, q.key, t))))
    /\ q.route = "stripe_subscriptions" => q.ref \in StripeSubIds
    /\ q.route \in {"get_subscription", "user_subscriptions"} =>
          (q.key = NoKey /\ q.platform = "ios")
    /\ q.route = "stripe_subscriptions" => q.platform = "ios"

ApiRequest(q) ==
    /\ Receivable(DB, q, now)
    /\ Commit(apiRoute(DB, q, now).db, FromEmpty)
    /\ UNCHANGED <<now, reqs, lastSweep>>

NextApi ==
    \/ Wait
    \/ \E q \in ApiRequests : ApiRequest(q)

SpecApi == Init /\ [][NextApi]_vars

(* C29: on every uid-scoped route, a caller authenticated as a non-admin   *)
(* user whose uid differs from the target uid never receives a success     *)
(* response or another user's response data, whatever requests were served *)
(* before, including requests that sent the same Idempotency-Key as        *)
(* another user.                                                           *)
C29_OtherUsersAreRefused ==
    \A q \in ApiRequests :
        (Receivable(DB, q, now) /\ q.role = "student" /\ q.caller # TargetUid(DB, q)) =>
            LET r == apiRoute(DB, q, now).resp
            IN  /\ r.code # 200
                /\ r.body.uid \in {"", q.caller}


---------------------------------------------------------------------------
(* A run of the dunning job, or of the grace-expiry check alone, with the  *)
(* renewals that arrive while it is in flight.  The job yields at every    *)
(* await: between its query and the write that follows from what the      *)
(* query returned, a webhook or the manager can renew the subscription.    *)

SweepJobs == {"runDunningJob", "checkGracePeriodExpiry"}

(* The user's one subscription, past_due since time 0. *)
TheSubscription == CHOOSE s \in SubIds : subs[s].exists

JobCaps ==
    IF subs["sub_s"].exists THEN Caps(PastDueStripe, MaxLedger, MaxWebhooks)
    ELSE Caps(PastDueIap, MaxLedger, MaxWebhooks)

JobIdle(r) == reqs[r].pc \in {"idle", "done"}
NoJobInFlight == \A r \in 1..MaxReq : JobIdle(r)

(* The job holds what its query returned and has a write of it pending. *)
HoldsSnapshot(r) == reqs[r].pc \in {"process", "cancel"}

(* findPastDueSubscriptions() and the loop that collects the attempts; or  *)
(* the start of checkGracePeriodExpiry                                     *)
JobStart(r, job) ==
    LET s == TheSubscription
        attempt == DunningAttemptOf(DB, s, now)
    IN  /\ JobIdle(r)
        /\ reqs' = [reqs EXCEPT ![r] =
                      [IdleReq EXCEPT !.n = Notif("job", job, s, ""),
                                      !.subscription = subs[s],
                                      !.pc = IF job = "runDunningJob" /\ attempt # NoAttempt
                                               THEN "process" ELSE "expiry"]]
        /\ UNCHANGED <<now, subs, ent, ledger, webhooks, payouts, lastSweep>>

(* processDunningAttempt(attempt), the attempt being the one collected     *)
(* from the document the query returned                                    *)
JobProcess(r) ==
    LET q == reqs[r]
        attemptNumber == determineAttemptNumber(calculateDaysSinceFailure(q.subscription, now))
    IN  /\ q.pc = "process"
        /\ Commit(processDunningAttempt(DB, q.n.ref, q.subscription.uid, attemptNumber, now),
                  JobCaps)
        /\ reqs' = [reqs EXCEPT ![r].pc = "expiry", ![r].wrote = TRUE]
        /\ UNCHANGED <<now, lastSweep>>

(* checkGracePeriodExpiry: the query *)
JobExpiryQuery(r) ==
    LET q == reqs[r]
    IN  /\ q.pc = "expiry"
        /\ reqs' = [reqs EXCEPT ![r].subscription = subs[q.n.ref],
                                ![r].pc = IF q.n.ref \in ExpiredGrace(DB, now)
                                            THEN "cancel" ELSE "done"]
        /\ UNCHANGED <<now, subs, ent, ledger, webhooks, payouts, lastSweep>>

(* checkGracePeriodExpiry: updateSubscriptionStatus(subscription.id, 'canceled') *)
JobCancel(r) ==
    LET q == reqs[r]
    IN  /\ q.pc = "cancel"
        /\ Commit(updateSubscriptionStatus(DB, q.n.ref, "canceled", now).db, JobCaps)
        /\ reqs' = [reqs EXCEPT ![r].pc = "done", ![r].wrote = TRUE]
        /\ UNCHANGED <<now, lastSweep>>

RenewalPaths == {"manager", "provider"}

RenewalBy(path, s) ==
    IF path = "manager" THEN ManagerPathRenewal(s)
    ELSE IF subs[s].provider = "stripe" THEN StripePathRenewal(s)
    ELSE IapPathRenewal(s)

(* A successful renewal, applied whole; a job that holds the past_due      *)
(* document of the subscription has it marked as overtaken.                *)
ApplyRenewal(path) ==
    LET s == TheSubscription
        d1 == RenewalBy(path, s)
    IN  /\ Commit(d1, JobCaps)
        /\ reqs' = [r \in 1..MaxReq |->
                      IF HoldsSnapshot(r) /\ subs[s].status = "past_due"
                                          /\ d1.subs[s].status = "active"
                        THEN [reqs[r] EXCEPT !.overlapped = TRUE]
                        ELSE reqs[r]]
        /\ UNCHANGED <<now, lastSweep>>

(* Time passes between the runs of the job. *)
WaitForJob ==
    /\ NoJobInFlight
    /\ Wait

NextJob ==
    \/ WaitForJob
    \/ \E r \in 1..MaxReq, job \in SweepJobs : JobStart(r, job)
    \/ \E r \in 1..MaxReq : JobProcess(r) \/ JobExpiryQuery(r) \/ JobCancel(r)
    \/ \E path \in RenewalPaths : ApplyRenewal(path)

SpecJob == InitDunning /\ [][NextJob]_vars

(* C30: when a successful renewal of a PastDue subscription is applied     *)
(* between the moment a dunning sweep or grace-expiry check reads the      *)
(* subscription and the moment it writes to it, the sweep's write does not *)
(* overwrite the renewal: once the sweep is done the subscription is       *)
(* Active, neither Canceled nor PastDue.                                   *)
C30_SweepKeepsRenewal ==
    \A r \in 1..MaxReq :
        (reqs[r].pc = "done" /\ reqs[r].overlapped) =>
            subs[reqs[r].n.ref].status = "active"


---------------------------------------------------------------------------
(* Notifications that arrive out of order.  A provider stamps a            *)
(* notification when it issues it (event.created, signedDate, eventTime);  *)
(* the delivery can come later than that of a notification issued after.   *)

Issued(n, created) ==
    [endpoint |-> n.endpoint, type |-> n.type, ref |-> n.ref, status |-> n.status,
     created |-> created]

(* The last operation applied was a successful renewal of s. *)
RenewalIsLatest(s) ==
    /\ subs[s].exists /\ subs[s].status = "active"
    /\ ledger # <<>>
    /\ ledger[Len(ledger)].type = "subscription.renewed"
    /\ ledger[Len(ledger)].refId = s

RenewalTime == ledger[Len(ledger)].ts

(* The notifications of a failed renewal of s, by its provider *)
FailureNotifs(s) ==
    IF subs[s].provider = "stripe"
      THEN {Notif("stripe", "invoice.payment_failed", s, ""),
            Notif("stripe", "customer.subscription.updated", s, "past_due")}
    ELSE IF subs[s].platform = "ios"
      THEN {Notif("appstore", "DID_FAIL_TO_RENEW", s, "")}
    ELSE {}

LateFailureDelivery(s, n, created) == webhookRoute(DB, Issued(n, created), now).db

(* C31: a RenewalFailed event that is older than a RenewalSucceeded event  *)
(* for the same subscription, applied after it, does not move the          *)
(* subscription back from Active to PastDue.                               *)
C31_StaleFailureDoesNotRegress ==
    \A s \in SubIds :
        RenewalIsLatest(s) =>
            \A n \in FailureNotifs(s) : \A created \in 0..(RenewalTime - 1) :
                LateFailureDelivery(s, n, created).subs[s].status = "active"


---------------------------------------------------------------------------
(* Concurrent status updates of the subscription manager.  A call of       *)
(* updateSubscriptionStatus yields at every await: the update of the       *)
(* document, the get that follows it, the query of the user's other        *)
(* subscriptions, the read of the entitlement document and its set.        *)

ManagerStatuses == {"canceled", "active"}

(* A call in flight: where it is, the status it sets, its subscription,    *)
(* the document it got, the answer of hasOtherActiveSubscriptions, the     *)
(* entitlement document updateEntitlements read; and, as history, whether  *)
(* another call was in flight along with it.                               *)
IdleCall ==
    [pc |-> "idle", status |-> "", ref |-> "", subscription |-> NoSub,
     hasOtherActive |-> FALSE, existing |-> NoEnt, overlapped |-> FALSE]

CallInFlight(r) == reqs[r].pc \notin {"idle", "done"}

(* An App Store or Play subscription that is Active and a Stripe           *)
(* subscription of the same user that is still incomplete.                 *)
ActiveAndIncomplete ==
    {webhookRoute(saveIAPSubscription(EmptyDB, "sub_i", "u1", pl, 0), StripeCreated, 0).db :
        pl \in Platforms}

InitCalls ==
    \E d0 \in ActiveAndIncomplete :
        /\ now = 0
        /\ subs = d0.subs
        /\ ent = d0.ent
        /\ ledger = d0.ledger
        /\ webhooks = d0.webhooks
        /\ payouts = d0.payouts
        /\ reqs = [r \in 1..MaxReq |-> IdleCall]
        /\ lastSweep = NoDate

(* updateSubscriptionStatus(subscriptionId, status) is called *)
CallUpdateStatus(r, s, status) ==
    /\ ~CallInFlight(r)
    /\ subs[s].exists
    /\ subs[s].status # status
    /\ \A o \in 1..MaxReq : CallInFlight(o) => reqs[o].ref # s
    /\ reqs' = [o \in 1..MaxReq |->
                  IF o = r
                    THEN [IdleCall EXCEPT !.pc = "update", !.status = status, !.ref = s,
                                          !.overlapped = \E x \in 1..MaxReq : CallInFlight(x)]
                  ELSE IF CallInFlight(o) THEN [reqs[o] EXCEPT !.overlapped = TRUE]
                  ELSE reqs[o]]
    /\ UNCHANGED <<now, subs, ent, ledger, webhooks, payouts, lastSweep>>

(* collections.subscriptions().doc(subscriptionId).update(updateData) *)
CallUpdate(r) ==
    LET q == reqs[r]
    IN  /\ q.pc = "update"
        /\ subs' = [subs EXCEPT ![q.ref].status = q.status, ![q.ref].updatedAt = now]
        /\ reqs' = [reqs EXCEPT ![r].pc = "get"]
        /\ UNCHANGED <<now, ent, ledger, webhooks, payouts, lastSweep>>

(* collections.subscriptions().doc(subscriptionId).get() *)
CallGet(r) ==
    LET q == reqs[r]
    IN  /\ q.pc = "get"
        /\ reqs' = [reqs EXCEPT ![r].subscription = subs[q.ref],
                                ![r].pc = IF q.status = "active" THEN "existing" ELSE "others"]
        /\ UNCHANGED <<now, subs, ent, ledger, webhooks, payouts, lastSweep>>

(* hasOtherActiveSubscriptions(subscription.uid, subscriptionId) *)
CallHasOtherActive(r) ==
    LET q == reqs[r]
        hasOtherActive == hasOtherActiveSubscriptions(DB, q.subscription.uid, q.ref)
    IN  /\ q.pc = "others"
        /\ reqs' = [reqs EXCEPT ![r].hasOtherActive = hasOtherActive,
                                ![r].pc = IF hasOtherActive THEN "done" ELSE "revoke"]
        /\ UNCHANGED <<now, subs, ent, ledger, webhooks, payouts, lastSweep>>

(* revokeEntitlements(subscription.uid) *)
CallRevoke(r) ==
    LET q == reqs[r]
    IN  /\ q.pc = "revoke"
        /\ ent' = revokeEntitlements(DB, q.subscription.uid).ent
        /\ reqs' = [reqs EXCEPT ![r].pc = "done"]
        /\ UNCHANGED <<now, subs, ledger, webhooks, payouts, lastSweep>>

(* grantEntitlements: updateEntitlements' getEntitlements(uid) *)
CallGetEntitlements(r) ==
    LET q == reqs[r]
    IN  /\ q.pc = "existing"
        /\ reqs' = [reqs EXCEPT ![r].existing = ent[q.subscription.uid], ![r].pc = "grant"]
        /\ UNCHANGED <<now, subs, ent, ledger, webhooks, payouts, lastSweep>>

(* grantEntitlements: updateEntitlements' collections.entitlements().doc(uid).set(...) *)
CallSetEntitlements(r) ==
    LET q == reqs[r]
        uid == q.subscription.uid
    IN  /\ q.pc = "grant"
        /\ ent' = grantEntitlements([DB EXCEPT !.ent[uid] = q.existing], q.subscription).ent
        /\ reqs' = [reqs EXCEPT ![r].pc = "done"]
        /\ UNCHANGED <<now, subs, ledger, webhooks, payouts, lastSweep>>

NextCalls ==
    \E r \in 1..MaxReq :
        \/ \E s \in SubIds, status \in ManagerStatuses : CallUpdateStatus(r, s, status)
        \/ CallUpdate(r)
        \/ CallGet(r)
        \/ CallHasOtherActive(r)
        \/ CallRevoke(r)
        \/ CallGetEntitlements(r)
        \/ CallSetEntitlements(r)

SpecCalls == InitCalls /\ [][NextCalls]_vars

(* The cancellation c of one subscription and the activation a of another  *)
(* subscription of the same user ran concurrently and both have completed. *)
CancelAndActivateCompleted(c, a) ==
    /\ reqs[c].pc = "done" /\ reqs[a].pc = "done"
    /\ reqs[c].overlapped /\ reqs[a].overlapped
    /\ reqs[c].status = "canceled" /\ reqs[a].status = "active"
    /\ reqs[c].ref # reqs[a].ref
    /\ subs[reqs[c].ref].uid = subs[reqs[a].ref].uid

(* C32: when the cancellation of one subscription and the activation of    *)
(* another subscription of the same user are processed concurrently, then  *)
(* once both have completed the user's entitlements contain the features   *)
(* of the subscription that is Active.                                     *)
C32_GrantSurvivesConcurrentRevoke ==
    \A c, a \in 1..MaxReq :
        CancelAndActivateCompleted(c, a) =>
            \A f \in TemplateFeatures(subs[reqs[a].ref]) :
                HasFeature(ent, subs[reqs[a].ref].uid, f)


---------------------------------------------------------------------------
(* A transition whose collections.ledger().add(...) rejects.  In the       *)
(* handlers below the add is the last await: the writes before it were     *)
(* made, the entry was not, and the error propagates to the caller.        *)

(* The notifications whose handler ends with the ledger entry. *)
LedgerLastNotifs ==
    {n \in SubscriptionNotifications :
        \/ n.endpoint = "stripe" /\ n.type = "invoice.payment_failed"
        \/ n.endpoint = "stripe" /\ n.type = "customer.subscription.updated"
                                 /\ n.status = "active"
        \/ n.endpoint = "appstore" /\ n.type \in {"DID_RENEW", "DID_FAIL_TO_RENEW", "REFUND"}}

(* The handler ran as far as its ledger add. *)
ReachesLedgerAdd(d, r) == ~r.err /\ Len(r.db.ledger) > Len(d.ledger)

whenLedgerAddRejects(d, r) ==
    IF ReachesLedgerAdd(d, r) THEN Throw([r.db EXCEPT !.ledger = d.ledger]) ELSE r

renewSubscriptionWhenLedgerAddRejects(d, subscriptionId, t) ==
    whenLedgerAddRejects(d, renewSubscription(d, subscriptionId, t))

(* router.post('/stripe' | '/appstore'): the adapter throws, the catch     *)
(* answers 400 and the lines that write the dedup document are not reached *)
webhookRouteWhenLedgerAddRejects(d, n, t) ==
    LET r == whenLedgerAddRejects(d, adapterHandleWebhook(d, n, t))
    IN  IF r.err
          THEN [db |-> r.db, resp |-> Response(n, 400, "error")]
          ELSE webhookRoute(d, n, t)

(* The transition left nothing applied. *)
NothingApplied(d1) == d1.subs = subs /\ d1.ent = ent /\ d1.ledger = ledger

(* C33: if appending the ledger entry of a transition fails, the entire    *)
(* transition is treated as failed and retryable: no subscription or       *)
(* entitlement change of that transition stays applied without its ledger  *)
(* entry, and the event is not recorded as processed.                      *)
C33_LedgerFailureFailsTransition ==
    /\ \A s \in SubIds :
           subs[s].exists =>
               LET r == renewSubscriptionWhenLedgerAddRejects(DB, s, now)
               IN  r.err /\ NothingApplied(r.db)
    /\ \A n \in LedgerLastNotifs :
           (Sendable(DB, n) /\ ReachesLedgerAdd(DB, adapterHandleWebhook(DB, n, now))) =>
               LET r == webhookRouteWhenLedgerAddRejects(DB, n, now)
               IN  /\ r.resp.code # 200
                   /\ r.db.webhooks = webhooks
                   /\ NothingApplied(r.db)


---------------------------------------------------------------------------
(* Deliveries that fail: the adapter throws (a Stripe update() of a        *)
(* missing document), the ledger add of the handler rejects, or the set()  *)
(* of the dedup document rejects.                                          *)

DeliveryFaults == {"none", "ledger", "mark"}

FailingDelivery(n, fault) ==
    CASE fault = "ledger" -> webhookRouteWhenLedgerAddRejects(DB, n, now)
      [] fault = "mark" -> webhookRouteUnder(DB, n, now, [read |-> FALSE, write |-> TRUE])
      [] OTHER -> webhookRouteUnder(DB, n, now, [read |-> FALSE, write |-> FALSE])

FaultApplies(n, fault) == fault = "ledger" => n \in LedgerLastNotifs

DeliverUnderFault(n, fault, cap) ==
    /\ Sendable(DB, n)
    /\ FaultApplies(n, fault)
    /\ Commit(FailingDelivery(n, fault).db, cap)
    /\ UNCHANGED <<now, reqs, lastSweep>>

(* The faults a delivery of the running service meets: a rejected ledger   *)
(* add is applied to the current database in C34 and C33 only, since a     *)
(* renewal that fails so can be repeated without bound.                    *)
RetryFaults == {"none", "mark"}

RetryCaps == Caps(EmptyDB, MaxMore + 1, MaxMore)

NextRetry ==
    \/ \E s \in IapSubIds, u \in Uids, pl \in Platforms : ValidateReceipt(s, u, pl, RetryCaps)
    \/ \E n \in SubscriptionNotifications, fault \in RetryFaults :
           DeliverUnderFault(n, fault, RetryCaps)

SpecRetry == Init /\ [][NextRetry]_vars

Failed(f) == f.resp.status = "error"

Redelivery(f, n) == webhookRoute(f.db, n, now)

(* The delivery was admitted and went through the route to its end. *)
AdmittedAndRecorded(r, n) ==
    /\ r.resp.code = 200
    /\ r.resp.status \in {"processed", "ignored"}
    /\ \E w \in r.db.webhooks : w.dedupKey = DedupKeyOf(n) /\ w.status = r.resp.status

---------------------------------------------------------------------------
(* The event id an adapter returns for a notification, and the key the     *)
(* route derives from it.                                                  *)

IssueTimes == 0..1

(* Every notification a provider can have issued: two notifications are    *)
(* different when they differ in kind, in subject or in the time of issue  *)
(* (two successive renewals).                                              *)
IssuedNotifications == {Issued(n, created) : n \in Notifications, created \in IssueTimes}

EventIdOf(n) == adapterHandleWebhook(DB, n, now).result.eventId

DedupKeyOfIssued(n) == generateWebhookDedupKey(n.endpoint, EventIdOf(n))

(* C35: the event id the adapters hand to the dedup gate is unique per     *)
(* notification: two different notifications about the same subscription,  *)
(* transaction or transfer (a renewal and a later cancellation, two        *)
(* successive renewals) get different dedup keys.                          *)
C35_EventIdUniquePerNotification ==
    \A n1, n2 \in IssuedNotifications :
        (n1 # n2 /\ n1.endpoint = n2.endpoint) => DedupKeyOfIssued(n1) # DedupKeyOfIssued(n2)


---------------------------------------------------------------------------
(* C36: the day count the dunning sweep uses is measured from the moment   *)
(* the subscription entered PastDue and never decreases while the          *)
(* subscription stays PastDue: neither a dunning step nor an update that   *)
(* leaves the status unchanged resets it.                                  *)

DayCount(sub, t) == calculateDaysSinceFailure(sub, t)

StaysPastDue(s) ==
    /\ subs[s].exists /\ subs[s].status = "past_due"
    /\ subs'[s].exists /\ subs'[s].status = "past_due"

DayCountKept(s) == StaysPastDue(s) => DayCount(subs'[s], now') >= DayCount(subs[s], now)

C36_DayCountNeverDecreases == [][\A s \in SubIds : DayCountKept(s)]_vars


---------------------------------------------------------------------------
(* C37: while a subscription remains PastDue, its graceUntil keeps the     *)
(* value set when it entered PastDue: dunning steps and further            *)
(* failed-payment notifications do not move the deadline later, so the     *)
(* time a user stays entitled without paying is bounded by GRACE_DAYS plus *)
(* one sweep interval.                                                     *)

HasDeadline(s) == subs[s].graceUntil # NoDate

GraceUntilKept(s) ==
    (StaysPastDue(s) /\ HasDeadline(s)) => subs'[s].graceUntil = subs[s].graceUntil

C37_GraceDeadlineIsFixed == [][\A s \in SubIds : GraceUntilKept(s)]_vars


---------------------------------------------------------------------------
(* C38: the dunning sweep computes the day count of a PastDue subscription *)
(* as the floor of the elapsed days since it entered PastDue, and maps that *)
(* count to a milestone: 0 or 1 gives milestone 0, 3 gives milestone 1,    *)
(* 7 gives milestone 2, every other count gives no action in that run.     *)
(* The elapsed time is taken from updatedAt, the only time the record      *)
(* keeps, so that the statement is about the rounding and the mapping.     *)

PastDueNow(s) == subs[s].exists /\ subs[s].status = "past_due"

WholeDaysElapsed(sub, t) == (t - sub.updatedAt) \div UnitsPerDay

MilestoneOfCount(count) ==
    CASE count \in {0, 1} -> 0
      [] count = 3 -> 1
      [] count = 7 -> 2
      [] OTHER -> NoAttempt

DayCountIsFloor(s) ==
    calculateDaysSinceFailure(subs[s], now) = WholeDaysElapsed(subs[s], now)

MilestoneIsMapped(s) ==
    determineAttemptNumber(calculateDaysSinceFailure(subs[s], now))
        = MilestoneOfCount(calculateDaysSinceFailure(subs[s], now))

C38_DayCountIsFloorOfElapsedDays ==
    \A s \in SubIds : PastDueNow(s) => (DayCountIsFloor(s) /\ MilestoneIsMapped(s))


---------------------------------------------------------------------------
(* C39: the ledger total that reconciliation computes for a provider over  *)
(* a window equals the sum of that provider's payment.succeeded amounts in *)
(* the window minus the sum of its refund.succeeded amounts in the window; *)
(* ledger entries of every other type contribute nothing.                  *)
(* As amended: payout.paid amounts in the window are added as well.        *)

(* Reconciliation next to the operations that write amounts to the ledger: *)
(* receipts, App Store renewals and refunds, payouts and their Wise        *)
(* notifications, on two days more than a grace period apart.              *)
NextReconcile ==
    \/ Wait
    \/ \E s \in IapSubIds, u \in Uids, pl \in Platforms : ValidateReceipt(s, u, pl, FromEmpty)
    \/ \E n \in AppleNotifs \cup WiseNotifs : DeliverWebhook(n, FromEmpty)
    \/ \E failing \in QueryFailures : RunReconcileJob(failing, FromEmpty)
    \/ \E p \in PayoutIds : PreparePayout(p, FromEmpty)
    \/ \E p \in PayoutIds, tr \in TransferIds : ApprovePayout(p, tr, FromEmpty)

SpecReconcile == Init /\ [][NextReconcile]_vars

(* The window of the job that runs now, and windows that begin or end on   *)
(* the first day, before it, or now.                                       *)
WindowTimes == {getStartDate(now), 0 - UnitsPerDay, 0, 1, now}

EntriesOfType(provider, type, startDate, endDate) ==
    {i \in 1..Len(ledger) : /\ ledger[i].provider = provider
                            /\ ledger[i].type = type
                            /\ ledger[i].ts >= startDate
                            /\ ledger[i].ts <= endDate}

RECURSIVE AmountOver(_)
AmountOver(I) ==
    IF I = {} THEN 0
    ELSE LET i == CHOOSE j \in I : TRUE
         IN  ledger[i].amount + AmountOver(I \ {i})

AmountOfType(provider, type, startDate, endDate) ==
    AmountOver(EntriesOfType(provider, type, startDate, endDate))

PaymentsLessRefunds(provider, startDate, endDate) ==
    AmountOfType(provider, "payment.succeeded", startDate, endDate)
        - AmountOfType(provider, "refund.succeeded", startDate, endDate)

C39_TotalIsPaymentsLessRefunds ==
    \A provider \in Providers, startDate \in WindowTimes, endDate \in WindowTimes :
        getLedgerTotal(DB, provider, startDate, endDate)
            = PaymentsLessRefunds(provider, startDate, endDate)

C39_TotalIsPaymentsAndPayoutsLessRefunds ==
    \A provider \in Providers, startDate \in WindowTimes, endDate \in WindowTimes :
        getLedgerTotal(DB, provider, startDate, endDate)
            = PaymentsLessRefunds(provider, startDate, endDate)
                + AmountOfType(provider, "payout.paid", startDate, endDate)

(* The job's window holds a counted payout of one provider and, for        *)
(* another, a counted payment next to an entry of a type that is not       *)
(* counted.                                                                *)
Counted(e) == e.type \in {"payment.succeeded", "refund.succeeded", "payout.paid"}

C39_Witness ==
    \E i \in 1..Len(ledger), j \in 1..Len(ledger), k \in 1..Len(ledger) :
        /\ ledger[i].type = "payout.paid" /\ ledger[i].amount > 0
        /\ getLedgerTotal(DB, ledger[i].provider, getStartDate(now), now) = ledger[i].amount
        /\ ledger[j].type = "payment.succeeded" /\ ledger[j].amount > 0
        /\ ledger[k].provider = ledger[j].provider
        /\ ~Counted(ledger[k]) /\ ledger[k].amount > 0
        /\ getLedgerTotal(DB, ledger[j].provider, getStartDate(now), now) = ledger[j].amount


---------------------------------------------------------------------------
(* C40: no dunning step or grace-expiry check moves a subscription from    *)
(* PastDue to Canceled while the current time is still earlier than that   *)
(* subscription's graceUntil; in that case the subscription record and the *)
(* user's entitlements are left unchanged.                                 *)

(* A step of the dunning job: its milestone steps and its expiry check.    *)
DunningJobStep == lastSweep' # lastSweep

InGrace(s) == PastDueNow(s) /\ now < subs[s].graceUntil

NotCanceledInGrace(s) == InGrace(s) => subs'[s].status # "canceled"

UntouchedInGrace(s) ==
    InGrace(s) => (subs'[s] = subs[s] /\ ent'[subs[s].uid] = ent[subs[s].uid])

C40_NoCancelBeforeGraceEnds ==
    [][DunningJobStep => \A s \in SubIds : NotCanceledInGrace(s) /\ UntouchedInGrace(s)]_vars

=============================================================================
